---- MODULE Spec2Model ----
(***************************************************************************)
(* Verification model of njs-api: the native <-> host-engine bridge.       *)
(*                                                                         *)
(*   SpecWrap : WrapData reference counting against the host GC            *)
(*              (njs-engine-v8.h, WrapData / V8WrapNative).                *)
(*   SpecCall : one host-initiated call through a binding entry point:     *)
(*              NJS_CHECK sequencing, ProcessResult, error materialization *)
(*              (njs-engine-v8.h, njs-base.h).                             *)
(*   SpecNum  : the numeric safety utilities of njs-base.h (IntUtils) and  *)
(*              the value conversions built on them (V8ConvertImpl).       *)
(*   SpecEnum : the enum-as-string table scan (njs-extension-enum.h).      *)
(*   SpecBind : class member registration (V8BindClassHelper).             *)
(*   SpecTask : tasks posted to the libuv thread pool                      *)
(*              (njs-integrate-libuv.h).                                   *)
(***************************************************************************)
EXTENDS Integers, Sequences, FiniteSets, TLC

VARIABLES
  wrapData,       \* native object -> its WrapData member (_njsData) and liveness
  heap,           \* host object -> liveness, reachability from script, internal field 0
  finalizedWith,  \* native object -> _refCount seen by destroyCallbackT (-1: never ran)
  lastOp,         \* the last wrap-interface operation that ran
  call,           \* the binding entry point being executed and the position in it
  payload,        \* ResultMixin::_payload (njs-base.h layout)
  v8payload,      \* ExecutionContext::_payload (njs-engine-v8.h layout)
  thrown,         \* host exceptions raised during the call, in order
  reads,          \* payload fields the error materialization interpreted
  num,            \* the numeric utility applied last, its input and its outcome
  enum,           \* the enum table, the EnumUtils function applied to it and its outcome
  bind,           \* the binding items being registered and the accessors registered
  task,           \* the posted tasks, the libuv work queue and the callbacks that ran
  unwrap          \* the unwrap applied last, the host value it was given and its outcome

WrapVars == <<wrapData, heap, finalizedWith, lastOp>>
CallVars == <<call, payload, v8payload, thrown, reads>>
NumVars == <<num>>
EnumVars == <<enum>>
BindVars == <<bind>>
TaskVars == <<task>>
UnwrapVars == <<unwrap>>
ExtVars == <<EnumVars, BindVars, TaskVars, UnwrapVars>>

(***************************************************************************)
(* Bounds of the wrap model.                                               *)
(***************************************************************************)
NumNatives == 2
NumHosts == 2
MaxRefCount == 2

Natives == 1..NumNatives
Hosts == 1..NumHosts

\* An empty persistent handle / a NULL internal field.
NoObject == 0

(***************************************************************************)
(* WrapData (njs-engine-v8.h:1721-1839).                                   *)
(***************************************************************************)

\* WrapData::WrapData(): _refCount(0), _object(), _destroyCallback(NULL).
WrapDataInit ==
  [_refCount |-> 0, _object |-> NoObject, weak |-> FALSE,
   _destroyCallback |-> FALSE, alive |-> TRUE]

\* WrapData::IsValid(): the persistent handle is not empty.
IsValid(n) == wrapData[n]._object # NoObject

\* WrapData::IsWeak().
IsWeak(n) == wrapData[n].weak

\* WrapData::RefCount().
RefCount(n) == wrapData[n]._refCount

\* WrapData::MakeWeak(self): SetWeak(self, _destroyCallback) on the handle.
MakeWeak(wd) == [wd EXCEPT !.weak = TRUE]

InitWrap ==
  /\ wrapData = [n \in Natives |-> WrapDataInit]
  /\ heap = [h \in Hosts |-> [live |-> TRUE, reachable |-> TRUE, field0 |-> NoObject]]
  /\ finalizedWith = [n \in Natives |-> -1]
  /\ lastOp = [op |-> "none", n |-> 0, prev |-> 0]

\* Context::Wrap -> internal::V8WrapNative(ctx, obj, self).  The assertions
\* cover the native side only (self not yet initialised) and that obj is an
\* object; nothing looks at what internal field 0 of obj already holds.
V8WrapNative(h, n) ==
  /\ heap[h].live /\ heap[h].reachable          \* the caller holds a local handle to obj
  /\ wrapData[n].alive
  /\ ~IsValid(n)                                \* NJS_ASSERT(!_object.IsValid())
  /\ ~wrapData[n]._destroyCallback              \* NJS_ASSERT(!_destroyCallback)
  /\ wrapData' = [wrapData EXCEPT ![n] =
                    MakeWeak([@ EXCEPT !._object = h, !.weak = FALSE,
                                       !._destroyCallback = TRUE])]
  /\ heap' = [heap EXCEPT ![h].field0 = n]
  /\ lastOp' = [op |-> "wrap", n |-> n, prev |-> RefCount(n)]
  /\ UNCHANGED <<finalizedWith, CallVars, NumVars, ExtVars>>

\* WrapData::AddRef(): _refCount++; _object._handle.ClearWeak().
AddRefNoClearWeak(n) ==
  /\ wrapData[n].alive
  /\ IsValid(n)
  /\ RefCount(n) < MaxRefCount
  /\ wrapData' = [wrapData EXCEPT ![n]._refCount = @ + 1]
  /\ lastOp' = [op |-> "addRef", n |-> n, prev |-> RefCount(n)]
  /\ UNCHANGED <<heap, finalizedWith, CallVars, NumVars, ExtVars>>

AddRef(n) ==
  /\ wrapData[n].alive
  /\ IsValid(n)                                 \* NJS_ASSERT(IsValid())
  /\ RefCount(n) < MaxRefCount
  /\ wrapData' = [wrapData EXCEPT ![n]._refCount = @ + 1, ![n].weak = FALSE]
  /\ lastOp' = [op |-> "addRef", n |-> n, prev |-> RefCount(n)]
  /\ UNCHANGED <<heap, finalizedWith, CallVars, NumVars, ExtVars>>

\* WrapData::Release(self): if (--_refCount == 0) MakeWeak(self).
ReleaseNoMakeWeak(n) ==
  /\ wrapData[n].alive
  /\ RefCount(n) > 0
  /\ IsValid(n)
  /\ ~IsWeak(n)
  /\ wrapData' = [wrapData EXCEPT ![n]._refCount = @ - 1]
  /\ lastOp' = [op |-> "release", n |-> n, prev |-> RefCount(n)]
  /\ UNCHANGED <<heap, finalizedWith, CallVars, NumVars, ExtVars>>

Release(n) ==
  /\ wrapData[n].alive
  /\ RefCount(n) > 0                            \* NJS_ASSERT(_refCount > 0)
  /\ IsValid(n)                                 \* NJS_ASSERT(IsValid())
  /\ ~IsWeak(n)                                 \* NJS_ASSERT(!IsWeak())
  /\ wrapData' = [wrapData EXCEPT ![n] =
                    IF @._refCount - 1 = 0
                      THEN MakeWeak([@ EXCEPT !._refCount = 0])
                      ELSE [@ EXCEPT !._refCount = @ - 1]]
  /\ lastOp' = [op |-> "release", n |-> n, prev |-> RefCount(n)]
  /\ UNCHANGED <<heap, finalizedWith, CallVars, NumVars, ExtVars>>

\* WrapData::Release(self) in a build with NDEBUG, where NJS_ASSERT (assert,
\* njs-base.h:40-43) expands to nothing: --_refCount on a size_t that is 0
\* gives SIZE_MAX, held here as the signed number of the same bits, -1.
ReleaseNoAssert(n) ==
  /\ wrapData[n].alive
  /\ IsValid(n)
  /\ RefCount(n) > 0 - MaxRefCount
  /\ wrapData' = [wrapData EXCEPT ![n] =
                    IF @._refCount - 1 = 0
                      THEN MakeWeak([@ EXCEPT !._refCount = 0])
                      ELSE [@ EXCEPT !._refCount = @ - 1]]
  /\ lastOp' = [op |-> "release", n |-> n, prev |-> RefCount(n)]
  /\ UNCHANGED <<heap, finalizedWith, CallVars, NumVars, ExtVars>>

\* NJS_BASE_CLASS MakeWeak(): _njsData.MakeWeak(this), public like AddRef and
\* Release; it asserts IsValid() only.
MakeWeakStep(n) ==
  /\ wrapData[n].alive
  /\ IsValid(n)                                 \* NJS_ASSERT(IsValid())
  /\ wrapData' = [wrapData EXCEPT ![n] = MakeWeak(@)]
  /\ lastOp' = [op |-> "makeWeak", n |-> n, prev |-> RefCount(n)]
  /\ UNCHANGED <<heap, finalizedWith, CallVars, NumVars, ExtVars>>

\* WrapData::WrapData(ctx, obj, destroyCallback): _refCount(0), the handle
\* reset to obj, the pointer stored in internal field 0; SetWeak is not
\* called.
WrapDataOf(h, n) ==
  /\ heap[h].live /\ heap[h].reachable
  /\ wrapData[n] = WrapDataInit                 \* the member is being constructed
  /\ wrapData' = [wrapData EXCEPT ![n] =
                    [@ EXCEPT !._refCount = 0, !._object = h, !.weak = FALSE,
                              !._destroyCallback = TRUE]]
  /\ heap' = [heap EXCEPT ![h].field0 = n]
  /\ lastOp' = [op |-> "construct", n |-> n, prev |-> 0]
  /\ UNCHANGED <<finalizedWith, CallVars, NumVars, ExtVars>>

\* NJS_BASE_CLASS AsJSObject(ctx): ctx.MakeLocal(_njsData._object) hands a
\* local handle of the paired host object back to script.
AsJSObject(n) ==
  /\ wrapData[n].alive
  /\ IsValid(n)
  /\ ~heap[wrapData[n]._object].reachable
  /\ heap' = [heap EXCEPT ![wrapData[n]._object].reachable = TRUE]
  /\ lastOp' = [op |-> "asJSObject", n |-> n, prev |-> RefCount(n)]
  /\ UNCHANGED <<wrapData, finalizedWith, CallVars, NumVars, ExtVars>>

\* The script drops its last reference to host object h.
DropReferences(h) ==
  /\ heap[h].live
  /\ heap[h].reachable
  /\ heap' = [heap EXCEPT ![h].reachable = FALSE]
  /\ lastOp' = [op |-> "drop", n |-> 0, prev |-> 0]
  /\ UNCHANGED <<wrapData, finalizedWith, CallVars, NumVars, ExtVars>>

\* The natives whose persistent handle refers to host object h.
HandlesOf(h) == {n \in Natives : wrapData[n].alive /\ wrapData[n]._object = h}

\* A host GC step on h.  The collector reclaims h only when script cannot
\* reach it and no strong persistent handle holds it; it then invokes the
\* weak callback registered on every weak handle of h:
\* WrapData::destroyCallbackT records nothing itself, it asserts
\* _refCount == 0, resets the handle and deletes self.
HostGC(h) ==
  /\ heap[h].live
  /\ ~heap[h].reachable
  /\ \A n \in HandlesOf(h) : IsWeak(n)
  /\ finalizedWith' = [n \in Natives |->
                         IF n \in HandlesOf(h) THEN RefCount(n) ELSE finalizedWith[n]]
  /\ wrapData' = [n \in Natives |->
                    IF n \in HandlesOf(h)
                      THEN [wrapData[n] EXCEPT !._object = NoObject, !.weak = FALSE,
                                               !.alive = FALSE]
                      ELSE wrapData[n]]
  /\ heap' = [heap EXCEPT ![h].live = FALSE]
  /\ lastOp' = [op |-> "gc", n |-> 0, prev |-> 0]
  /\ UNCHANGED <<CallVars, NumVars, ExtVars>>

(***************************************************************************)
(* Unwrap.  The engine header has the unchecked unwrap only                *)
(* (Context::Unwrap -> internal::V8UnwrapNative, njs-engine-v8.h:1008-1013 *)
(* and 1863-1871).  The checked unwrap that the bindings of                *)
(* test/njs_test.cpp:61-68 call, ctx.unwrapArgument<T>(index, &out), is    *)
(* not part of the sources; it is modelled from its contract               *)
(* (unwrapChecked, spec.md section 4.4).                                   *)
(***************************************************************************)
NumTypes == 2
WrappedTypes == 1..NumTypes

\* The wrapped type (the T of Wrap<T>) of a native object.
NativeType(n) == ((n - 1) % NumTypes) + 1

\* An internal slot that holds no type tag.
NoTag == 0

\* The type-tag slot of a host object: the tag of the wrapped type the
\* object was paired with, none before the object is wrapped.
TagOf(h) == IF heap[h].field0 = NoObject THEN NoTag ELSE NativeType(heap[h].field0)

\* Host values a script can pass: primitives, an object of no bound class,
\* and the instances of bound classes it can still reach.
HostPrimitive(kind) == [kind |-> kind, h |-> NoObject]
HostObject(h) == [kind |-> "object", h |-> h]
UnwrapValues ==
  {HostPrimitive(k) : k \in {"undefined", "number", "string", "plainObject"}}
    \cup {HostObject(h) : h \in {x \in Hosts : heap[x].live /\ heap[x].reachable}}

Unwrapped(ptr, T) == [result |-> "kResultOk", ptr |-> ptr, as |-> T]
NotUnwrapped(code) == [result |-> code, ptr |-> NoObject, as |-> NoTag]

\* A checked unwrap that tests only that the value is an instance of a
\* bound class, not which one.
unwrapCheckedNoTagTest(v, T) ==
  IF v.kind # "object" THEN NotUnwrapped("kResultInvalidValue")
  ELSE IF TagOf(v.h) = NoTag THEN NotUnwrapped("kResultInvalidValue")
  ELSE Unwrapped(heap[v.h].field0, T)

\* unwrapChecked(hostVal, tag) -> nativePtr | InvalidValue.
unwrapChecked(v, T) ==
  IF v.kind # "object" THEN NotUnwrapped("kResultInvalidValue")
  ELSE IF TagOf(v.h) # T THEN NotUnwrapped("kResultInvalidValue")
  ELSE Unwrapped(heap[v.h].field0, T)

\* internal::V8UnwrapNative<T>(ctx, obj): internal field 0 cast to T*.
V8UnwrapNative(h, T) == Unwrapped(heap[h].field0, T)

UnwrapIdle == [fn |-> "none", value |-> HostPrimitive("undefined"), T |-> NoTag,
               out |-> NotUnwrapped("kResultOk")]

InitUnwrap == unwrap = UnwrapIdle

\* ctx.unwrapArgument<T>(index, &out) on the argument v.
UnwrapCheckedStep(v, T) ==
  /\ unwrap' = [fn |-> "unwrapChecked", value |-> v, T |-> T, out |-> unwrapChecked(v, T)]
  /\ UNCHANGED <<WrapVars, CallVars, NumVars, EnumVars, BindVars, TaskVars>>

\* Context::Unwrap<T>(obj).  NJS_ASSERT(obj.IsObject()) and
\* NJS_ASSERT(obj->InternalFieldCount() > 0) make an instance of a bound
\* class the precondition of the call.
UnwrapStep(h, T) ==
  /\ heap[h].live /\ heap[h].reachable
  /\ unwrap' = [fn |-> "Unwrap", value |-> HostObject(h), T |-> T, out |-> V8UnwrapNative(h, T)]
  /\ UNCHANGED <<WrapVars, CallVars, NumVars, EnumVars, BindVars, TaskVars>>

(***************************************************************************)
(* Result codes (njs-base.h:220-257).  A code is modelled by its name;     *)
(* CodeValue gives the number the enumeration assigns to it.               *)
(***************************************************************************)
BaseCodes ==
  {"kResultOk",
   "kResultThrowError", "kResultThrowTypeError", "kResultThrowRangeError",
   "kResultThrowSyntaxError", "kResultThrowReferenceError",
   "kResultInvalidState", "kResultInvalidHandle", "kResultOutOfMemory",
   "kResultInvalidValue", "kResultInvalidValueTypeId", "kResultInvalidValueTypeName",
   "kResultInvalidValueCustom", "kResultInvalidValueRange",
   "kResultUnsafeInt64Conversion", "kResultUnsafeUint64Conversion",
   "kResultInvalidArgumentsLength",
   "kResultInvalidConstructCall", "kResultAbstractConstructCall",
   "kResultBypass"}

CodeValue(c) ==
  CASE c = "kResultOk" -> 0
    [] c = "kResultThrowError" -> 1
    [] c = "kResultThrowTypeError" -> 2
    [] c = "kResultThrowRangeError" -> 3
    [] c = "kResultThrowSyntaxError" -> 4
    [] c = "kResultThrowReferenceError" -> 5
    [] c = "kResultInvalidState" -> 10
    [] c = "kResultInvalidHandle" -> 11
    [] c = "kResultOutOfMemory" -> 12
    [] c = "kResultInvalidValue" -> 13
    [] c = "kResultInvalidValueTypeId" -> 14
    [] c = "kResultInvalidValueTypeName" -> 15
    [] c = "kResultInvalidValueCustom" -> 16
    [] c = "kResultInvalidValueRange" -> 17
    [] c = "kResultUnsafeInt64Conversion" -> 18
    [] c = "kResultUnsafeUint64Conversion" -> 19
    [] c = "kResultInvalidArgumentsLength" -> 20
    [] c = "kResultInvalidConstructCall" -> 21
    [] c = "kResultAbstractConstructCall" -> 22
    [] c = "kResultBypass" -> 23

\* Codes that only the V8 bridge names (njs-engine-v8.h:182, 1485-1507,
\* 2045-2079); njs-base.h declares no number for them.
V8OnlyCodes ==
  {"kResultInvalidArgumentCommon", "kResultInvalidArgumentTypeId",
   "kResultInvalidArgumentTypeName", "kResultInvalidArgumentCount",
   "kResultInvalidArgumentValue", "kResultInvalidValueCommon",
   "kResultInvalidValueType"}

V8Codes == BaseCodes \cup V8OnlyCodes

\* ExceptionType (njs-base.h:196-204).
kExceptionError == 1
kExceptionTypeError == 2

_kResultThrowFirst == CodeValue("kResultThrowError")
_kResultThrowLast == CodeValue("kResultThrowReferenceError")
_kResultValueFirst == CodeValue("kResultInvalidValue")
_kResultValueLast == CodeValue("kResultUnsafeUint64Conversion")

(***************************************************************************)
(* ResultPayload (njs-base.h:774-838): a union over two machine words.     *)
(* A word is modelled with the shape under which it was last written:      *)
(*   first  : any.first  | error.message | value.argIndex |                *)
(*            arguments.minArgs | constructCall.className                  *)
(*   second : any.second | value.typeId / typeName / message |             *)
(*            arguments.maxArgs                                            *)
(* Strings are modelled by the index of the string in a pool.              *)
(***************************************************************************)
MaxArgIndex == 1
NumStrings == 2
MaxTypeId == 2

ArgIndexes == 0..MaxArgIndex
Strings == 1..NumStrings
TypeIds == 0..MaxTypeId

Slot(shape, v) == [shape |-> shape, v |-> v]

\* ResultPayload::reset(): any.first = any.second = -1.
reset == [first |-> Slot("reset", -1), second |-> Slot("reset", -1)]

\* ResultPayload::isInitialized(): any.first != -1.
isInitialized(p) == p.first.v # -1

(***************************************************************************)
(* ResultMixin (njs-base.h:847-953).  Each helper maps the payload to the  *)
(* returned code and the payload it leaves; a helper call is a record      *)
(* [helper, a, b] with the arguments the overload takes.                   *)
(***************************************************************************)
MixinOut(code, p) == [code |-> code, payload |-> p]

invalidValue(p) == MixinOut("kResultInvalidValue", p)
invalidValueTypeId(p, typeId) ==
  MixinOut("kResultInvalidValueTypeId", [p EXCEPT !.second = Slot("typeId", typeId)])
invalidValueTypeName(p, typeName) ==
  MixinOut("kResultInvalidValueTypeName", [p EXCEPT !.second = Slot("typeName", typeName)])
invalidValueCustom(p, message) ==
  MixinOut("kResultInvalidValueCustom", [p EXCEPT !.second = Slot("message", message)])
invalidArgument(p) ==
  MixinOut("kResultInvalidValue", [p EXCEPT !.first = Slot("argIndex", -2)])
invalidArgumentAt(p, index) ==
  MixinOut("kResultInvalidValue", [p EXCEPT !.first = Slot("argIndex", index)])
invalidArgumentTypeId(p, index, typeId) ==
  MixinOut("kResultInvalidValueTypeId",
           [p EXCEPT !.first = Slot("argIndex", index), !.second = Slot("typeId", typeId)])
invalidArgumentTypeName(p, index, typeName) ==
  MixinOut("kResultInvalidValueTypeName",
           [p EXCEPT !.first = Slot("argIndex", index), !.second = Slot("typeName", typeName)])
invalidArgumentCustom(p, index, message) ==
  MixinOut("kResultInvalidValueCustom",
           [p EXCEPT !.first = Slot("argIndex", index), !.second = Slot("message", message)])
invalidArgumentsLength(p) == MixinOut("kResultInvalidArgumentsLength", p)
invalidArgumentsLengthExact(p, numArgs) ==
  MixinOut("kResultInvalidArgumentsLength",
           [p EXCEPT !.first = Slot("minArgs", numArgs), !.second = Slot("maxArgs", numArgs)])
invalidArgumentsLengthRange(p, minArgs, maxArgs) ==
  MixinOut("kResultInvalidArgumentsLength",
           [p EXCEPT !.first = Slot("minArgs", minArgs), !.second = Slot("maxArgs", maxArgs)])
invalidConstructCall(p) == MixinOut("kResultInvalidConstructCall", p)
invalidConstructCallOf(p, className) ==
  MixinOut("kResultInvalidConstructCall", [p EXCEPT !.first = Slot("className", className)])
abstractConstructCall(p) == MixinOut("kResultAbstractConstructCall", p)
abstractConstructCallOf(p, className) ==
  MixinOut("kResultAbstractConstructCall", [p EXCEPT !.first = Slot("className", className)])

MixinCall(helper, a, b) == [helper |-> helper, a |-> a, b |-> b]

\* Every call of a ResultMixin helper within the bounds.
MixinCalls ==
  {MixinCall(h, 0, 0) : h \in {"invalidValue", "invalidArgument", "invalidArgumentsLength",
                               "invalidConstructCall", "abstractConstructCall"}}
  \cup {MixinCall("invalidValueTypeId", t, 0) : t \in TypeIds}
  \cup {MixinCall(h, s, 0) : h \in {"invalidValueTypeName", "invalidValueCustom",
                                    "invalidConstructCallOf", "abstractConstructCallOf"},
                             s \in Strings}
  \cup {MixinCall(h, i, 0) : h \in {"invalidArgumentAt", "invalidArgumentsLengthExact"},
                             i \in ArgIndexes}
  \cup {MixinCall("invalidArgumentTypeId", i, t) : i \in ArgIndexes, t \in TypeIds}
  \cup {MixinCall(h, i, s) : h \in {"invalidArgumentTypeName", "invalidArgumentCustom"},
                             i \in ArgIndexes, s \in Strings}
  \cup {MixinCall("invalidArgumentsLengthRange", i, j) : i \in ArgIndexes, j \in ArgIndexes}

ApplyMixin(c, p) ==
  CASE c.helper = "invalidValue" -> invalidValue(p)
    [] c.helper = "invalidValueTypeId" -> invalidValueTypeId(p, c.a)
    [] c.helper = "invalidValueTypeName" -> invalidValueTypeName(p, c.a)
    [] c.helper = "invalidValueCustom" -> invalidValueCustom(p, c.a)
    [] c.helper = "invalidArgument" -> invalidArgument(p)
    [] c.helper = "invalidArgumentAt" -> invalidArgumentAt(p, c.a)
    [] c.helper = "invalidArgumentTypeId" -> invalidArgumentTypeId(p, c.a, c.b)
    [] c.helper = "invalidArgumentTypeName" -> invalidArgumentTypeName(p, c.a, c.b)
    [] c.helper = "invalidArgumentCustom" -> invalidArgumentCustom(p, c.a, c.b)
    [] c.helper = "invalidArgumentsLength" -> invalidArgumentsLength(p)
    [] c.helper = "invalidArgumentsLengthExact" -> invalidArgumentsLengthExact(p, c.a)
    [] c.helper = "invalidArgumentsLengthRange" -> invalidArgumentsLengthRange(p, c.a, c.b)
    [] c.helper = "invalidConstructCall" -> invalidConstructCall(p)
    [] c.helper = "invalidConstructCallOf" -> invalidConstructCallOf(p, c.a)
    [] c.helper = "abstractConstructCall" -> abstractConstructCall(p)
    [] c.helper = "abstractConstructCallOf" -> abstractConstructCallOf(p, c.a)

(***************************************************************************)
(* Error materialization of njs-base.h: Internal::reportError              *)
(* (njs-base.h:1049-1129).  A message is the list of its format texts and  *)
(* the list of the payload values printed into them.  Every reading of a   *)
(* payload word is recorded as <<word, shape it is interpreted as>>; the   *)
(* test against the reset value -1 reads the word as "any".                *)
(***************************************************************************)
Msg(texts, args) == [texts |-> texts, args |-> args]

Exception(by, type, msg) == [by |-> by, type |-> type, msg |-> msg]

\* The part of a value-band message after the base text
\* (njs-base.h:1082-1095).
ValueDetailTypeNameForTypeId(result, p) ==
  IF result \in {"kResultInvalidValueTypeId", "kResultInvalidValueTypeName"}
    THEN [texts |-> <<": Expected Type '%s'">>, args |-> <<p.second.v>>,
          reads |-> {<<"second", "typeName">>}]
    ELSE IF result = "kResultInvalidValueCustom"
      THEN [texts |-> <<": %s">>, args |-> <<p.second.v>>,
            reads |-> {<<"second", "message">>}]
      ELSE [texts |-> <<>>, args |-> <<>>, reads |-> {}]

ValueDetail(result, p) ==
  IF result = "kResultInvalidValueTypeId"
    THEN [texts |-> <<": Expected Type '%s' (typeNameOf)">>, args |-> <<p.second.v>>,
          reads |-> {<<"second", "typeId">>}]
    ELSE IF result = "kResultInvalidValueTypeName"
      THEN [texts |-> <<": Expected Type '%s'">>, args |-> <<p.second.v>>,
            reads |-> {<<"second", "typeName">>}]
      ELSE IF result = "kResultInvalidValueCustom"
        THEN [texts |-> <<": %s">>, args |-> <<p.second.v>>,
              reads |-> {<<"second", "message">>}]
        ELSE [texts |-> <<>>, args |-> <<>>, reads |-> {}]

\* reportError(ctx, result, payload): the exceptions it throws through
\* ctx.throwNewException and the payload words it read.
reportError(result, p) ==
  LET v == CodeValue(result)
      out(type, msg, rd) ==
        [thrown |-> <<Exception("bridge", type, msg)>>, reads |-> rd]
  IN
  IF v >= _kResultThrowFirst /\ v <= _kResultThrowLast THEN
    IF ~isInitialized(p)
      THEN out(v, Msg(<<"">>, <<>>), {<<"first", "any">>})
      ELSE out(v, Msg(<<"%s">>, <<p.first.v>>),
               {<<"first", "any">>, <<"first", "errorMessage">>})
  ELSE IF v >= _kResultValueFirst /\ v <= _kResultValueLast THEN
    LET argIndex == p.first.v
        base == IF argIndex = -1 THEN Msg(<<"Invalid value">>, <<>>)
                ELSE IF argIndex = -2 THEN Msg(<<"Invalid argument">>, <<>>)
                ELSE Msg(<<"Invalid argument [%u]">>, <<argIndex>>)
        d == ValueDetail(result, p)
    IN out(kExceptionTypeError, Msg(base.texts \o d.texts, base.args \o d.args),
           {<<"first", "argIndex">>} \cup d.reads)
  ELSE IF result = "kResultInvalidArgumentsLength" THEN
    LET minArgs == p.first.v
        maxArgs == p.second.v
        rd == {<<"first", "minArgs">>, <<"second", "maxArgs">>}
    IN IF minArgs = -1 \/ maxArgs = -1
         THEN out(kExceptionTypeError,
                  Msg(<<"Invalid number of arguments: (unspecified)">>, <<>>), rd)
         ELSE IF minArgs = maxArgs
           THEN out(kExceptionTypeError,
                    Msg(<<"Invalid number of arguments: Required exactly %d">>,
                        <<minArgs>>), rd)
           ELSE out(kExceptionTypeError,
                    Msg(<<"Invalid number of arguments: Required between %d..%d">>,
                        <<minArgs, maxArgs>>), rd)
  ELSE IF result \in {"kResultInvalidConstructCall", "kResultAbstractConstructCall"} THEN
    LET reason == IF result = "kResultInvalidConstructCall"
                    THEN "Use new operator" ELSE "Class is abstract"
    IN IF isInitialized(p)
         THEN out(kExceptionTypeError,
                  Msg(<<"Cannot instantiate '%s': ", reason>>, <<p.first.v>>),
                  {<<"first", "any">>, <<"first", "className">>})
         ELSE out(kExceptionTypeError,
                  Msg(<<"Cannot instantiate '(anonymous)': ", reason>>, <<>>),
                  {<<"first", "any">>})
  ELSE out(kExceptionError, Msg(<<"Unknown error">>, <<>>), {})

(***************************************************************************)
(* The V8 bridge: internal::ResultPayload (njs-engine-v8.h:1334-1459),     *)
(* ExecutionContext::ProcessResult (1510-1513), internal::V8ReportError    *)
(* (2009-2093).  Reset() clears _data only; the other members hold         *)
(* indeterminate values until a helper writes them.  _err.msg, _arg.msg    *)
(* and _val.msg share one word of the union.                               *)
(***************************************************************************)
Reset ==
  [_data |-> Slot("null", 0), msg |-> Slot("uninit", 0), index |-> Slot("uninit", 0),
   required |-> Slot("uninit", 0), type |-> Slot("uninit", 0)]

\* The values a read of an indeterminate word can produce.
Indeterminate == {-1, 0}

\* The value read from a word: junk when the word was never written.
ValueOf(slot, junk) == IF slot.shape = "uninit" THEN junk ELSE slot.v

\* Context::ThrowNewException(type, msg): one ThrowException on the isolate.
ThrowNewException(type, msg) == <<Exception("bridge", type, msg)>>

V8ReportError(result, pl, junk) ==
  LET val(slot) == ValueOf(slot, junk) IN
  CASE result \in {"kResultThrowError", "kResultThrowTypeError", "kResultThrowRangeError",
                   "kResultThrowSyntaxError", "kResultThrowReferenceError"} ->
         ThrowNewException(CodeValue(result), Msg(<<"%s">>, <<val(pl.msg)>>))
    [] result = "kResultInvalidArgumentCommon" ->
         ThrowNewException(kExceptionTypeError,
           Msg(<<"Invalid argument %d (%s)">>, <<val(pl.index), val(pl.msg)>>))
    [] result \in {"kResultInvalidArgumentTypeId", "kResultInvalidArgumentTypeName"} ->
         ThrowNewException(kExceptionTypeError,
           Msg(<<"Invalid argument %d (%s must be of type %s)">>,
               <<val(pl.index), val(pl.msg), val(pl.type)>>))
    [] result = "kResultInvalidArgumentCount" ->
         IF val(pl.required) = -1
           THEN ThrowNewException(kExceptionTypeError,
                  Msg(<<"Invalid count of arguments">>, <<>>))
           ELSE ThrowNewException(kExceptionTypeError,
                  Msg(<<"Invalid count of arguments (%d required)">>, <<val(pl.required)>>))
    [] result = "kResultInvalidValueCommon" ->
         ThrowNewException(kExceptionTypeError,
           Msg(<<"Invalid value (%s)">>, <<val(pl.msg)>>))
    [] result = "kResultInvalidConstructCall" ->
         ThrowNewException(kExceptionTypeError,
           Msg(<<"Cannot instantiate class %s without new">>, <<val(pl._data)>>))
    [] result = "kResultAbstractConstructCall" ->
         ThrowNewException(kExceptionTypeError,
           Msg(<<"Cannot instantiate abstract class %s">>, <<val(pl._data)>>))
    [] OTHER ->
         \* no case label: msg still points at the unwritten tmpBuffer
         ThrowNewException(kExceptionError, Msg(<<"%s">>, <<junk>>))

\* ExecutionContext::ProcessResult(result).
ProcessResultKnownCodesOnly(result, pl, junk) ==
  IF result \in {"kResultOk", "kResultBypass", "kResultInvalidState",
                 "kResultInvalidHandle", "kResultOutOfMemory"}
    THEN <<>>
    ELSE V8ReportError(result, pl, junk)

ProcessResult(result, pl, junk) ==
  IF result # "kResultOk" THEN V8ReportError(result, pl, junk) ELSE <<>>

\* NJS_CHECK(op) (njs-base.h:1034-1040): result_ = resultOf(op);
\* if (result_ != 0) return result_.  kResultOk is the code with value 0.
NJS_CHECK_ContinuesOnBypass(r) ==
  [returns |-> r \notin {"kResultOk", "kResultBypass"}, code |-> r]

NJS_CHECK(r) == [returns |-> r # "kResultOk", code |-> r]

(***************************************************************************)
(* One host-initiated call.  call.pc: "idle" -> "impl" -> "process" ->     *)
(* "done" through the entry points the NJS_BIND_* macros generate          *)
(* (njs-engine-v8.h:2218-2327), and "idle" -> "report" -> "done" for a     *)
(* failure produced with the ResultMixin of njs-base.h.                    *)
(***************************************************************************)

\* The number of fallible operations in the body of an implementation
\* function: ImplSteps - 1 NJS_CHECK(op) lines and a final `return op`.
ImplSteps == 3

\* Type::StaticClassName(), as an index into the string pool.
StaticClassName == 1

NoHelper == MixinCall("none", 0, 0)

CallIdle ==
  [pc |-> "idle", api |-> "none", kind |-> "none", isNew |-> FALSE, step |-> 0,
   ran |-> <<>>, result |-> "kResultOk", helper |-> NoHelper]

InitCall ==
  /\ call = CallIdle
  /\ payload = reset
  /\ v8payload = Reset
  /\ thrown = <<>>
  /\ reads = {}

\* A constructor entry that calls the implementation whether or not the
\* call has construct-call semantics.
ConstructorEntryIgnoringNew(isNew) ==
  /\ call.pc = "idle"
  /\ call' = [call EXCEPT !.pc = "impl", !.api = "v8", !.kind = "constructor",
                          !.isNew = isNew, !.step = 1]
  /\ v8payload' = Reset
  /\ UNCHANGED <<payload, thrown, reads, WrapVars, NumVars, ExtVars>>

\* NJS_BIND_CONSTRUCTOR: ConstructorEntry(info).  The context constructor
\* resets the payload; without construct-call semantics the implementation
\* is not entered.
ConstructorEntry(isNew) ==
  /\ call.pc = "idle"
  /\ IF ~isNew
       THEN /\ call' = [call EXCEPT !.pc = "process", !.api = "v8", !.kind = "constructor",
                                    !.isNew = isNew, !.result = "kResultInvalidConstructCall"]
            /\ v8payload' = [Reset EXCEPT !._data = Slot("className", StaticClassName)]
       ELSE /\ call' = [call EXCEPT !.pc = "impl", !.api = "v8", !.kind = "constructor",
                                    !.isNew = isNew, !.step = 1]
            /\ v8payload' = Reset
  /\ UNCHANGED <<payload, thrown, reads, WrapVars, NumVars, ExtVars>>

\* NJS_ABSTRACT_CONSTRUCTOR: ConstructorEntry(info).
AbstractConstructorEntry(isNew) ==
  /\ call.pc = "idle"
  /\ call' = [call EXCEPT !.pc = "process", !.api = "v8", !.kind = "abstract",
                          !.isNew = isNew,
                          !.result = IF ~isNew THEN "kResultInvalidConstructCall"
                                               ELSE "kResultAbstractConstructCall"]
  /\ v8payload' = [Reset EXCEPT !._data = Slot("className", StaticClassName)]
  /\ UNCHANGED <<payload, thrown, reads, WrapVars, NumVars, ExtVars>>

\* NJS_BIND_STATIC / NJS_BIND_METHOD / NJS_BIND_GET / NJS_BIND_SET: the
\* entry builds the context and calls the implementation.
BoundEntryKinds == {"static", "method", "getter", "setter"}

BoundEntry(kind) ==
  /\ call.pc = "idle"
  /\ call' = [call EXCEPT !.pc = "impl", !.api = "v8", !.kind = kind, !.step = 1]
  /\ v8payload' = Reset
  /\ UNCHANGED <<payload, thrown, reads, WrapVars, NumVars, ExtVars>>

\* One line of the implementation function: the operation runs and yields
\* r; a Bypass means the operation raised a host exception itself
\* (Context::Throw, njs-engine-v8.h:1207-1230).  NJS_CHECK returns r when it
\* is not Ok; the last line returns whatever its operation yields.
ImplStep(r) ==
  /\ call.pc = "impl"
  /\ LET chk == NJS_CHECK(r)
         last == call.step = ImplSteps
     IN call' = [call EXCEPT
                   !.ran = Append(@, r),
                   !.pc = IF chk.returns \/ last THEN "process" ELSE "impl",
                   !.result = IF chk.returns \/ last THEN chk.code ELSE @,
                   !.step = IF chk.returns \/ last THEN @ ELSE @ + 1]
  /\ thrown' = IF r = "kResultBypass"
                 THEN Append(thrown, Exception("impl", kExceptionError, Msg(<<"%s">>, <<0>>)))
                 ELSE thrown
  /\ UNCHANGED <<payload, v8payload, reads, WrapVars, NumVars, ExtVars>>

\* ExecutionContext::InvalidArgumentsCount(expected): the code alone,
\* expected is not stored.
InvalidArgumentsCount(expected) == "kResultInvalidArgumentCount"

\* FunctionCallContext::VerifyArgumentsCount(n), ArgumentsCount() being argc.
VerifyArgumentsCount(n, argc) == IF argc = n THEN "kResultOk" ELSE InvalidArgumentsCount(n)

\* A line NJS_CHECK(ctx.VerifyArgumentsCount(n)) of the implementation
\* function, called with argc arguments.
VerifyArgumentsCountStep(n, argc) ==
  /\ call.pc = "impl"
  /\ call.step < ImplSteps
  /\ call.helper = NoHelper
  /\ LET r == VerifyArgumentsCount(n, argc)
         chk == NJS_CHECK(r)
     IN call' = [call EXCEPT
                   !.ran = Append(@, r),
                   !.helper = MixinCall("VerifyArgumentsCount", n, argc),
                   !.pc = IF chk.returns THEN "process" ELSE "impl",
                   !.result = IF chk.returns THEN chk.code ELSE @,
                   !.step = IF chk.returns THEN @ ELSE @ + 1]
  /\ UNCHANGED <<payload, v8payload, thrown, reads, WrapVars, NumVars, ExtVars>>

\* The entry hands the result to ctx.ProcessResult(result).
ProcessResultStep(junk) ==
  /\ call.pc = "process"
  /\ thrown' = thrown \o ProcessResult(call.result, v8payload, junk)
  /\ call' = [call EXCEPT !.pc = "done"]
  /\ UNCHANGED <<payload, v8payload, reads, WrapVars, NumVars, ExtVars>>

\* A fallible operation fails through a ResultMixin helper on the freshly
\* reset payload of its context (njs-base.h:849).
MixinFail(c) ==
  /\ call.pc = "idle"
  /\ LET o == ApplyMixin(c, reset)
     IN /\ payload' = o.payload
        /\ call' = [call EXCEPT !.pc = "report", !.api = "base", !.kind = "mixin",
                                !.result = o.code, !.helper = c]
  /\ UNCHANGED <<v8payload, thrown, reads, WrapVars, NumVars, ExtVars>>

\* A fallible operation returns a failing code without touching the payload
\* (resultOf of a null pointer, a Throw* code, a conversion failure).
DirectFail(code) ==
  /\ call.pc = "idle"
  /\ code \notin {"kResultOk", "kResultBypass"}
  /\ payload' = reset
  /\ call' = [call EXCEPT !.pc = "report", !.api = "base", !.kind = "direct",
                          !.result = code]
  /\ UNCHANGED <<v8payload, thrown, reads, WrapVars, NumVars, ExtVars>>

\* Internal::reportError(ctx, result, payload) materializes the failure.
ReportErrorStep ==
  /\ call.pc = "report"
  /\ LET r == reportError(call.result, payload)
     IN /\ thrown' = thrown \o r.thrown
        /\ reads' = r.reads
  /\ call' = [call EXCEPT !.pc = "done"]
  /\ UNCHANGED <<payload, v8payload, WrapVars, NumVars, ExtVars>>

(***************************************************************************)
(* Numbers.  The integers of the program are up to 64 bits wide, so an     *)
(* integer is modelled as an 80-bit two's-complement number held in five   *)
(* 16-bit limbs, most significant first; every C++ integer value of every  *)
(* type has exactly one such representation.                               *)
(***************************************************************************)
LimbBase == 2^16

NumAdd(a, b) ==
  LET s5 == a[5] + b[5]
      s4 == a[4] + b[4] + (s5 \div LimbBase)
      s3 == a[3] + b[3] + (s4 \div LimbBase)
      s2 == a[2] + b[2] + (s3 \div LimbBase)
      s1 == a[1] + b[1] + (s2 \div LimbBase)
  IN <<s1 % LimbBase, s2 % LimbBase, s3 % LimbBase, s4 % LimbBase, s5 % LimbBase>>

NumZero == <<0, 0, 0, 0, 0>>
NumOne == <<0, 0, 0, 0, 1>>

NumNeg(a) ==
  NumAdd(<<LimbBase - 1 - a[1], LimbBase - 1 - a[2], LimbBase - 1 - a[3],
           LimbBase - 1 - a[4], LimbBase - 1 - a[5]>>, NumOne)

NumSub(a, b) == NumAdd(a, NumNeg(b))

\* 2^k for k in 0..78.
Pow2(k) ==
  LET at == 5 - (k \div 16)
      limb == 2^(k % 16)
  IN <<IF at = 1 THEN limb ELSE 0, IF at = 2 THEN limb ELSE 0, IF at = 3 THEN limb ELSE 0,
       IF at = 4 THEN limb ELSE 0, IF at = 5 THEN limb ELSE 0>>

\* A small integer of the model as a number.
NumOf(i) == IF i >= 0 THEN <<0, 0, 0, 0, i>> ELSE NumNeg(<<0, 0, 0, 0, 0 - i>>)

NumIsNegative(a) == a[1] >= LimbBase \div 2

\* a < b as integers: compare with the sign bit flipped, limb by limb.
NumLess(a, b) ==
  LET ka == <<(a[1] + LimbBase \div 2) % LimbBase, a[2], a[3], a[4], a[5]>>
      kb == <<(b[1] + LimbBase \div 2) % LimbBase, b[2], b[3], b[4], b[5]>>
  IN \E i \in 1..5 : ka[i] < kb[i] /\ \A j \in 1..(i - 1) : ka[j] = kb[j]

NumLeq(a, b) == a = b \/ NumLess(a, b)

(***************************************************************************)
(* Integer types (njs-base.h:334-355, NJS_INT_TRAITS): width and           *)
(* signedness, minValue() and maxValue(), and static_cast between them.    *)
(***************************************************************************)
IntTypeNames ==
  {"int8_t", "uint8_t", "int16_t", "uint16_t", "int32_t", "uint32_t", "int64_t", "uint64_t"}

SizeOf(T) ==
  CASE T \in {"int8_t", "uint8_t"} -> 1
    [] T \in {"int16_t", "uint16_t"} -> 2
    [] T \in {"int32_t", "uint32_t"} -> 4
    [] T \in {"int64_t", "uint64_t"} -> 8

\* TypeTraits<T>::kIsSigned.
kIsSigned(T) == T \in {"int8_t", "int16_t", "int32_t", "int64_t"}

\* TypeTraits<T>::minValue() / maxValue(): std::numeric_limits<T>.
minValue(T) == IF kIsSigned(T) THEN NumNeg(Pow2(8 * SizeOf(T) - 1)) ELSE NumZero
maxValue(T) ==
  IF kIsSigned(T) THEN NumSub(Pow2(8 * SizeOf(T) - 1), NumOne)
                  ELSE NumSub(Pow2(8 * SizeOf(T)), NumOne)

\* The low 8 * SizeOf(T) bits of a number, as a non-negative number.
LowBits(T, v) ==
  CASE SizeOf(T) = 1 -> <<0, 0, 0, 0, v[5] % 256>>
    [] SizeOf(T) = 2 -> <<0, 0, 0, 0, v[5]>>
    [] SizeOf(T) = 4 -> <<0, 0, 0, v[4], v[5]>>
    [] SizeOf(T) = 8 -> <<0, v[2], v[3], v[4], v[5]>>

\* static_cast<T>(v): the value is reduced modulo 2^width and, for a signed
\* T, read back as two's complement.
static_cast(T, v) ==
  LET low == LowBits(T, v)
  IN IF kIsSigned(T) /\ NumLeq(Pow2(8 * SizeOf(T) - 1), low)
       THEN NumSub(low, Pow2(8 * SizeOf(T)))
       ELSE low

\* The outcome of a conversion with an output parameter: the result code,
\* whether `out` was assigned, and the value `out` holds afterwards.
Assigned(v) == [result |-> "kResultOk", assigned |-> TRUE, out |-> v]
Failed(code, prev) == [result |-> code, assigned |-> FALSE, out |-> prev]

(***************************************************************************)
(* IntUtils::intCast (njs-base.h:365-404).                                 *)
(***************************************************************************)
\* IntCastImpl<In, Out, IsNarrowing, IsSigned>::op, primary template.
IntCastImplAny(In, Out, in, prev) == Assigned(static_cast(Out, in))

\* IntCastImpl<In, Out, 1, 0>::op ("unsigned narrowing").
IntCastImpl10(In, Out, in, prev) ==
  IF NumLess(static_cast(In, maxValue(Out)), in)
    THEN Failed("kResultInvalidValue", prev)
    ELSE Assigned(static_cast(Out, in))

\* IntCastImpl<In, Out, 1, 1>::op ("signed narrowing").
IntCastImpl11(In, Out, in, prev) ==
  IF NumLess(in, static_cast(In, minValue(Out))) \/ NumLess(static_cast(In, maxValue(Out)), in)
    THEN Failed("kResultInvalidValue", prev)
    ELSE Assigned(static_cast(Out, in))

\* intCast<In, Out>(in, out): IsNarrowing is sizeof(In) > sizeof(Out),
\* IsSigned is kIsSigned of In and of Out together.
intCast(In, Out, in, prev) ==
  LET IsNarrowing == SizeOf(In) > SizeOf(Out)
      IsSigned == kIsSigned(In) /\ kIsSigned(Out)
  IN IF IsNarrowing /\ ~IsSigned THEN IntCastImpl10(In, Out, in, prev)
     ELSE IF IsNarrowing /\ IsSigned THEN IntCastImpl11(In, Out, in, prev)
     ELSE IntCastImplAny(In, Out, in, prev)

(***************************************************************************)
(* IntUtils::isSafeInt (njs-base.h:406-441).                               *)
(***************************************************************************)
\* 9007199254740991 = 2^53 - 1.
MaxSafeInteger == NumSub(Pow2(53), NumOne)

isSafeIntBelowTwoPow53(T, x) ==
  IF SizeOf(T) # 8 THEN SizeOf(T) <= 4
  ELSE IF ~kIsSigned(T)
    THEN NumLeq(static_cast("uint64_t", x), static_cast("uint64_t", Pow2(53)))
    ELSE /\ NumLeq(NumNeg(static_cast("int64_t", Pow2(53))), static_cast("int64_t", x))
         /\ NumLeq(static_cast("int64_t", x), static_cast("int64_t", Pow2(53)))

\* isSafeInt<T>(x) = IsSafeIntImpl<T, sizeof(T), kIsSigned>::op(x).
isSafeInt(T, x) ==
  IF SizeOf(T) # 8 THEN SizeOf(T) <= 4
  ELSE IF ~kIsSigned(T)
    THEN NumLeq(static_cast("uint64_t", x), static_cast("uint64_t", MaxSafeInteger))
    ELSE /\ NumLeq(NumNeg(static_cast("int64_t", MaxSafeInteger)), static_cast("int64_t", x))
         /\ NumLeq(static_cast("int64_t", x), static_cast("int64_t", MaxSafeInteger))

(***************************************************************************)
(* Host doubles.  A double is an integer (cls "int", value n), an integer  *)
(* plus one half (cls "frac", value n + 1/2), negative zero, a NaN or an   *)
(* infinity.  Only doubles that exist are drawn: every integer up to 2^53  *)
(* in magnitude, even integers beyond, halves below 2^52.                  *)
(***************************************************************************)
Double(cls, n) == [cls |-> cls, n |-> n]

\* in <= c and in >= c for an integer-valued constant c; false for a NaN.
DoubleLeq(in, c) ==
  CASE in.cls = "int" -> NumLeq(in.n, c)
    [] in.cls = "frac" -> NumLess(in.n, c)
    [] in.cls = "negzero" -> NumLeq(NumZero, c)
    [] in.cls = "ninf" -> TRUE
    [] OTHER -> FALSE

DoubleGeq(in, c) ==
  CASE in.cls = "int" -> NumLeq(c, in.n)
    [] in.cls = "frac" -> NumLeq(c, in.n)
    [] in.cls = "negzero" -> NumLeq(c, NumZero)
    [] in.cls = "pinf" -> TRUE
    [] OTHER -> FALSE

\* static_cast<int64_t>(in) for a finite double in the range of int64_t:
\* the fraction is discarded, rounding toward zero.
DoubleToInteger(in) ==
  CASE in.cls = "int" -> static_cast("int64_t", in.n)
    [] in.cls = "frac" ->
         static_cast("int64_t", IF NumIsNegative(in.n) THEN NumAdd(in.n, NumOne) ELSE in.n)
    [] in.cls = "negzero" -> NumZero

\* static_cast<double>(x) for |x| <= 2^53, where it is exact.
IntegerToDouble(x) == Double("int", x)

\* a == b on doubles: a NaN equals nothing, -0.0 equals 0.0.
DoubleEq(a, b) ==
  LET isZero(d) == d.cls = "negzero" \/ (d.cls = "int" /\ d.n = NumZero)
  IN /\ a.cls # "nan" /\ b.cls # "nan"
     /\ \/ isZero(a) /\ isZero(b)
        \/ a = b

(***************************************************************************)
(* IntUtils::doubleToInt64 / doubleToUint64 (njs-base.h:443-465).          *)
(***************************************************************************)
doubleToInt64NoRoundTrip(in, prev) ==
  IF DoubleGeq(in, NumNeg(MaxSafeInteger)) /\ DoubleLeq(in, MaxSafeInteger)
    THEN Assigned(DoubleToInteger(in))
    ELSE Failed("kResultInvalidValue", prev)

doubleToInt64(in, prev) ==
  IF DoubleGeq(in, NumNeg(MaxSafeInteger)) /\ DoubleLeq(in, MaxSafeInteger)
    THEN LET x == DoubleToInteger(in)
         IN IF DoubleEq(IntegerToDouble(x), in)
              THEN Assigned(x)
              ELSE Failed("kResultInvalidValue", prev)
    ELSE Failed("kResultInvalidValue", prev)

doubleToUint64(in, prev) ==
  IF DoubleGeq(in, NumZero) /\ DoubleLeq(in, MaxSafeInteger)
    THEN LET x == DoubleToInteger(in)
         IN IF DoubleEq(IntegerToDouble(x), in)
              THEN Assigned(static_cast("uint64_t", x))
              ELSE Failed("kResultInvalidValue", prev)
    ELSE Failed("kResultInvalidValue", prev)

(***************************************************************************)
(* Conversion between native integers and host values: V8ConvertImpl       *)
(* (njs-engine-v8.h:170-269).  A host value is a number holding a double   *)
(* or a value of another host type.  internal::IntCast, IsSafeInt,         *)
(* DoubleToInt64 and DoubleToUint64 are the utilities of njs-base.h.       *)
(***************************************************************************)
HostNumber(d) == [type |-> "number", d |-> d]
HostOther(t) == [type |-> t, d |-> Double("int", NumZero)]
NoHostValue == HostOther("empty")

\* v8::Value::IsNumber / IsInt32 / IsUint32: the latter two hold for a
\* number whose value is an integer of that range other than -0.
IsNumber(v) == v.type = "number"
IsInt32(v) ==
  /\ IsNumber(v) /\ v.d.cls = "int"
  /\ NumLeq(minValue("int32_t"), v.d.n) /\ NumLeq(v.d.n, maxValue("int32_t"))
IsUint32(v) ==
  /\ IsNumber(v) /\ v.d.cls = "int"
  /\ NumLeq(NumZero, v.d.n) /\ NumLeq(v.d.n, maxValue("uint32_t"))

\* TypeTraits<T>::kTraitId of an integer type (njs-base.h:334-338).
TraitIdOf(T) ==
  IF kIsSigned(T) THEN (IF SizeOf(T) < 8 THEN "kTraitIdSafeInt" ELSE "kTraitIdUnsafeInt")
                  ELSE (IF SizeOf(T) < 8 THEN "kTraitIdSafeUint" ELSE "kTraitIdUnsafeUint")

\* V8ConvertImpl<T, Id>::Unpack(ctx, in, out).
UnpackNoUint32Test(T, in, prev) ==
  CASE TraitIdOf(T) = "kTraitIdSafeInt" ->
         IF ~IsInt32(in) THEN Failed("kResultInvalidValueType", prev)
                         ELSE intCast("int32_t", T, in.d.n, prev)
    [] TraitIdOf(T) = "kTraitIdSafeUint" ->
         IF ~IsNumber(in) \/ in.d.cls \notin {"int", "frac", "negzero"}
           THEN Failed("kResultInvalidValueType", prev)
           ELSE intCast("uint32_t", T, static_cast("uint32_t", DoubleToInteger(in.d)), prev)
    [] TraitIdOf(T) = "kTraitIdUnsafeInt" ->
         IF ~IsNumber(in) THEN Failed("kResultInvalidValueType", prev)
                          ELSE doubleToInt64(in.d, prev)
    [] TraitIdOf(T) = "kTraitIdUnsafeUint" ->
         IF ~IsNumber(in) THEN Failed("kResultInvalidValueType", prev)
                          ELSE doubleToUint64(in.d, prev)

Unpack(T, in, prev) ==
  CASE TraitIdOf(T) = "kTraitIdSafeInt" ->
         IF ~IsInt32(in) THEN Failed("kResultInvalidValueType", prev)
                         ELSE intCast("int32_t", T, in.d.n, prev)
    [] TraitIdOf(T) = "kTraitIdSafeUint" ->
         IF ~IsUint32(in) THEN Failed("kResultInvalidValueType", prev)
                          ELSE intCast("uint32_t", T, in.d.n, prev)
    [] TraitIdOf(T) = "kTraitIdUnsafeInt" ->
         IF ~IsNumber(in) THEN Failed("kResultInvalidValueType", prev)
                          ELSE doubleToInt64(in.d, prev)
    [] TraitIdOf(T) = "kTraitIdUnsafeUint" ->
         IF ~IsNumber(in) THEN Failed("kResultInvalidValueType", prev)
                          ELSE doubleToUint64(in.d, prev)

\* The outcome of a Pack: the result code, the host value produced (none
\* on failure) and the V8 constructor that produced it.
Packed(v, path) == [result |-> "kResultOk", host |-> HostNumber(Double("int", v)), path |-> path]
NotPacked(code) == [result |-> code, host |-> NoHostValue, path |-> "none"]

\* V8ConvertImpl<T, Id>::Pack(ctx, in, out).  v8::Integer::New takes an
\* int32_t, NewFromUnsigned a uint32_t, Number::New a double.
Pack(T, in) ==
  CASE TraitIdOf(T) \in {"kTraitIdSafeInt", "kTraitIdSafeUint"} ->
         Packed(static_cast("int32_t", in), "Integer::New")
    [] TraitIdOf(T) = "kTraitIdUnsafeInt" ->
         IF NumLeq(static_cast(T, minValue("int32_t")), in)
            /\ NumLeq(in, static_cast(T, maxValue("int32_t")))
           THEN Packed(static_cast("int32_t", in), "Integer::New")
           ELSE IF ~isSafeInt(T, in)
                  THEN NotPacked("kResultUnsafeInt64Conversion")
                  ELSE Packed(in, "Number::New")
    [] TraitIdOf(T) = "kTraitIdUnsafeUint" ->
         IF NumLeq(in, static_cast(T, maxValue("uint32_t")))
           THEN Packed(static_cast("uint32_t", in), "Integer::NewFromUnsigned")
           ELSE IF ~isSafeInt(T, in)
                  THEN NotPacked("kResultUnsafeInt64Conversion")
                  ELSE Packed(in, "Number::New")

(***************************************************************************)
(* Conversion with a concept: internal::V8ConvertWithConceptImpl           *)
(* (njs-engine-v8.h:299-329).  A validator concept is a Range<T>           *)
(* (njs-base.h:629-649); a serializer concept is user code, modelled by    *)
(* the code it returns.  calls lists the functions the conversion called.  *)
(***************************************************************************)
RangeOf(minValue_, maxValue_) ==
  [kind |-> "kConceptValidator", _minValue |-> minValue_, _maxValue |-> maxValue_,
   result |-> "kResultOk"]
Serializer(result) ==
  [kind |-> "kConceptSerializer", _minValue |-> NumZero, _maxValue |-> NumZero,
   result |-> result]
NoConcept == [kind |-> "none", _minValue |-> NumZero, _maxValue |-> NumZero,
              result |-> "kResultOk"]

\* Range<T>::validate(value).
validate(concept, value) ==
  IF NumLeq(concept._minValue, value) /\ NumLeq(value, concept._maxValue)
    THEN "kResultOk"
    ELSE "kResultInvalidValueRange"

\* A validator Pack that packs first and validates the value afterwards.
PackWithConceptValidatingLast(T, in, concept) ==
  IF concept.kind = "kConceptSerializer"
    THEN [result |-> concept.result,
          host |-> IF concept.result = "kResultOk" THEN HostOther("string") ELSE NoHostValue,
          calls |-> <<"Serialize">>]
    ELSE LET r == Pack(T, in)
         IN IF r.result # "kResultOk"
              THEN [result |-> r.result, host |-> r.host, calls |-> <<"Pack">>]
              ELSE [result |-> validate(concept, in), host |-> r.host,
                    calls |-> <<"Pack", "Validate">>]

\* V8ConvertWithConceptImpl<T, Concept, ConceptType>::Pack(ctx, in, out, concept).
PackWithConcept(T, in, concept) ==
  IF concept.kind = "kConceptSerializer"
    THEN [result |-> concept.result,
          host |-> IF concept.result = "kResultOk" THEN HostOther("string") ELSE NoHostValue,
          calls |-> <<"Serialize">>]
    ELSE IF NJS_CHECK(validate(concept, in)).returns
           THEN [result |-> validate(concept, in), host |-> NoHostValue,
                 calls |-> <<"Validate">>]
           ELSE LET r == Pack(T, in)
                IN [result |-> r.result, host |-> r.host, calls |-> <<"Validate", "Pack">>]

\* V8ConvertWithConceptImpl<T, Concept, ConceptType>::Unpack(ctx, in, out, concept).
\* The validator validates out, which the default Unpack has assigned.
UnpackWithConcept(T, in, prev, concept) ==
  IF concept.kind = "kConceptSerializer"
    THEN [result |-> concept.result, assigned |-> concept.result = "kResultOk",
          out |-> IF concept.result = "kResultOk" THEN NumZero ELSE prev,
          calls |-> <<"Deserialize">>]
    ELSE LET r == Unpack(T, in, prev)
         IN IF NJS_CHECK(r.result).returns
              THEN [result |-> r.result, assigned |-> r.assigned, out |-> r.out,
                    calls |-> <<"Unpack">>]
              ELSE [result |-> validate(concept, r.out), assigned |-> r.assigned,
                    out |-> r.out, calls |-> <<"Unpack", "Validate">>]

(***************************************************************************)
(* The inputs the numeric utilities are applied to.                        *)
(***************************************************************************)
\* Small integers -MaxSmall..MaxSmall are drawn next to the values around
\* the powers of two where the integer types and the safe range end.
MaxSmall == 2

LandmarkBits == {7, 8, 15, 16, 31, 32, 52, 53, 63, 64}

Landmarks ==
  {NumOf(i) : i \in (0 - MaxSmall)..MaxSmall}
  \cup {NumAdd(Pow2(k), NumOf(i)) : k \in LandmarkBits, i \in -1..1}
  \cup {NumAdd(NumNeg(Pow2(k)), NumOf(i)) : k \in LandmarkBits, i \in -1..1}

\* The values of integer type T among the landmarks.
ValuesOf(T) == {v \in Landmarks : NumLeq(minValue(T), v) /\ NumLeq(v, maxValue(T))}

\* The doubles drawn: integers up to 2^53 in magnitude and the even ones
\* beyond, halves below 2^52, and the special values.
Doubles ==
  {Double("int", v) : v \in {w \in Landmarks :
       /\ NumLeq(NumNeg(Pow2(53)), w) /\ NumLeq(w, Pow2(53))}}
  \cup {Double("int", v) : v \in {NumAdd(Pow2(53), NumOf(2)), NumNeg(NumAdd(Pow2(53), NumOf(2))),
                                  Pow2(63), NumNeg(Pow2(63)), Pow2(64)}}
  \cup {Double("frac", v) : v \in {w \in Landmarks :
       /\ NumLeq(NumNeg(Pow2(52)), w) /\ NumLess(w, Pow2(52))}}
  \cup {Double(c, NumZero) : c \in {"negzero", "nan", "pinf", "ninf"}}

\* The value the output variable holds before a conversion is applied.
OutBefore == NumOf(77)

\* The host values drawn: every double drawn and one value of each of the
\* other host types.
HostValues ==
  {HostNumber(d) : d \in Doubles}
  \cup {HostOther(t) : t \in {"undefined", "boolean", "string", "object"}}

NumIdle ==
  [fn |-> "none", a |-> "", b |-> "", x |-> NumZero, d |-> Double("int", NumZero),
   result |-> "kResultOk", assigned |-> FALSE, out |-> OutBefore, flag |-> FALSE,
   host |-> NoHostValue, path |-> "none", concept |-> NoConcept, calls |-> <<>>]

\* No utility has been applied yet; each behaviour applies one of them to
\* one input.
InitNum == num = NumIdle

IntCastStep(In, Out, in) ==
  /\ num.fn = "none"
  /\ LET r == intCast(In, Out, in, OutBefore)
     IN num' = [NumIdle EXCEPT !.fn = "intCast", !.a = In, !.b = Out, !.x = in,
                               !.result = r.result, !.assigned = r.assigned, !.out = r.out]
  /\ UNCHANGED <<WrapVars, CallVars, ExtVars>>

IsSafeIntStep(T, x) ==
  /\ num.fn = "none"
  /\ num' = [NumIdle EXCEPT !.fn = "isSafeInt", !.a = T, !.x = x, !.flag = isSafeInt(T, x)]
  /\ UNCHANGED <<WrapVars, CallVars, ExtVars>>

DoubleToInt64Step(in) ==
  /\ num.fn = "none"
  /\ LET r == doubleToInt64(in, OutBefore)
     IN num' = [NumIdle EXCEPT !.fn = "doubleToInt64", !.d = in,
                               !.result = r.result, !.assigned = r.assigned, !.out = r.out]
  /\ UNCHANGED <<WrapVars, CallVars, ExtVars>>

DoubleToUint64Step(in) ==
  /\ num.fn = "none"
  /\ LET r == doubleToUint64(in, OutBefore)
     IN num' = [NumIdle EXCEPT !.fn = "doubleToUint64", !.d = in,
                               !.result = r.result, !.assigned = r.assigned, !.out = r.out]
  /\ UNCHANGED <<WrapVars, CallVars, ExtVars>>

UnpackStep(T, in) ==
  /\ num.fn = "none"
  /\ LET r == Unpack(T, in, OutBefore)
     IN num' = [NumIdle EXCEPT !.fn = "Unpack", !.a = T, !.host = in,
                               !.result = r.result, !.assigned = r.assigned, !.out = r.out]
  /\ UNCHANGED <<WrapVars, CallVars, ExtVars>>

PackStep(T, in) ==
  /\ num.fn = "none"
  /\ LET r == Pack(T, in)
     IN num' = [NumIdle EXCEPT !.fn = "Pack", !.a = T, !.x = in,
                               !.result = r.result, !.host = r.host, !.path = r.path]
  /\ UNCHANGED <<WrapVars, CallVars, ExtVars>>

\* The concepts drawn for a type: three ranges and a serializer for each of
\* two outcomes.
ConceptsOf(T) ==
  {RangeOf(NumZero, NumOf(2)), RangeOf(NumOne, maxValue(T)), RangeOf(minValue(T), NumOne)}
    \cup {Serializer(c) : c \in {"kResultOk", "kResultInvalidValue"}}

PackWithConceptStep(T, in, concept) ==
  /\ num.fn = "none"
  /\ LET r == PackWithConcept(T, in, concept)
     IN num' = [NumIdle EXCEPT !.fn = "PackWithConcept", !.a = T, !.x = in,
                               !.concept = concept, !.result = r.result, !.host = r.host,
                               !.calls = r.calls]
  /\ UNCHANGED <<WrapVars, CallVars, ExtVars>>

UnpackWithConceptStep(T, in, concept) ==
  /\ num.fn = "none"
  /\ LET r == UnpackWithConcept(T, in, OutBefore, concept)
     IN num' = [NumIdle EXCEPT !.fn = "UnpackWithConcept", !.a = T, !.host = in,
                               !.concept = concept, !.result = r.result,
                               !.assigned = r.assigned, !.out = r.out, !.calls = r.calls]
  /\ UNCHANGED <<WrapVars, CallVars, ExtVars>>

(***************************************************************************)
(* Enum tables: Internal::EnumUtils (njs-extension-enum.h:32-126).  An     *)
(* enum table is a char array of NUL-terminated records in enumerator      *)
(* order, a record starting with kAltEnumMarker being an alternate         *)
(* spelling of the record before it, closed by an empty record.  Chars are *)
(* their codes; arrays are indexed from 1.                                 *)
(***************************************************************************)
NUL == 0
kAltEnumMarker == 64
Hyphen == 45
kEnumNotFound == -1      \* ~static_cast<unsigned int>(0), as a signed 32-bit number

isIgnorableChar(c) == c = Hyphen

\* while (*pa++) continue;  -- the position after the first NUL at or after pa.
RECURSIVE SkipToken(_, _)
SkipToken(data, pa) == IF data[pa] = NUL THEN pa + 1 ELSE SkipToken(data, pa + 1)

\* The comparison loop of parse (lines 68-85) from input position pb and
\* table position pa.  "match": the input and the token ended together;
\* "end": the token ended first (L_End, pa is after its NUL); "nomatch":
\* L_NoMatch with pa inside the token.
RECURSIVE CompareIgnoringInputHyphen(_, _, _, _)
CompareIgnoringInputHyphen(in, data, pb, pa) ==
  IF pb > Len(in)
    THEN IF data[pa] = NUL THEN [kind |-> "match", pa |-> pa + 1]
                           ELSE [kind |-> "nomatch", pa |-> pa + 1]
    ELSE LET ca == data[pa]
         IN IF ca = NUL THEN [kind |-> "end", pa |-> pa + 1]
            ELSE IF ca = in[pb] THEN CompareIgnoringInputHyphen(in, data, pb + 1, pa + 1)
            ELSE IF isIgnorableChar(ca) THEN CompareIgnoringInputHyphen(in, data, pb, pa + 1)
            ELSE IF isIgnorableChar(in[pb]) THEN CompareIgnoringInputHyphen(in, data, pb + 1, pa)
            ELSE [kind |-> "nomatch", pa |-> pa + 1]

RECURSIVE Compare(_, _, _, _)
Compare(in, data, pb, pa) ==
  IF pb > Len(in)
    THEN IF data[pa] = NUL THEN [kind |-> "match", pa |-> pa + 1]
                           ELSE [kind |-> "nomatch", pa |-> pa + 1]
    ELSE LET ca == data[pa]
         IN IF ca = NUL THEN [kind |-> "end", pa |-> pa + 1]
            ELSE IF ca = in[pb] THEN Compare(in, data, pb + 1, pa + 1)
            ELSE IF isIgnorableChar(ca) THEN Compare(in, data, pb, pa + 1)
            ELSE [kind |-> "nomatch", pa |-> pa + 1]

RECURSIVE ParseFromCountingAlternates(_, _, _, _)
ParseFromCountingAlternates(in, data, pa, index) ==
  IF data[pa] = NUL THEN kEnumNotFound
  ELSE LET isAlt == data[pa] = kAltEnumMarker
           ca == IF isAlt THEN data[pa + 1] ELSE data[pa]
           pa1 == IF isAlt THEN pa + 2 ELSE pa + 1
       IN IF ca = in[1]
            THEN LET m == Compare(in, data, 2, pa1)
                 IN CASE m.kind = "match" -> index
                      [] m.kind = "end" -> ParseFromCountingAlternates(in, data, m.pa, index + 1)
                      [] m.kind = "nomatch" ->
                           ParseFromCountingAlternates(in, data, SkipToken(data, m.pa), index + 1)
            ELSE ParseFromCountingAlternates(in, data, SkipToken(data, pa1), index + 1)

\* One iteration of the for loop of parse and the iterations after it.
RECURSIVE ParseFrom(_, _, _, _)
ParseFrom(in, data, pa, index) ==
  IF data[pa] = NUL THEN kEnumNotFound
  ELSE LET isAlt == data[pa] = kAltEnumMarker
           ca == IF isAlt THEN data[pa + 1] ELSE data[pa]
           pa1 == IF isAlt THEN pa + 2 ELSE pa + 1
           idx == IF isAlt THEN index - 1 ELSE index
       IN IF ca = in[1]
            THEN LET m == Compare(in, data, 2, pa1)
                 IN CASE m.kind = "match" -> idx
                      [] m.kind = "end" -> ParseFrom(in, data, m.pa, idx + 1)
                      [] m.kind = "nomatch" ->
                           ParseFrom(in, data, SkipToken(data, m.pa), idx + 1)
            ELSE ParseFrom(in, data, SkipToken(data, pa1), idx + 1)

\* EnumUtils::parse(in, size, enumData), size being Len(in).
parse(in, data) == IF Len(in) = 0 THEN kEnumNotFound ELSE ParseFrom(in, data, 1, 0)

\* The copy loop of stringify (lines 116-122): the chars from p up to the
\* NUL, and their number as the return value.
RECURSIVE CopyToken(_, _)
CopyToken(data, p) == IF data[p] = NUL THEN <<>> ELSE <<data[p]>> \o CopyToken(data, p + 1)

Stringified(buf) == [ret |-> Len(buf), buf |-> buf]
NotStringified == [ret |-> kEnumNotFound, buf |-> <<>>]

\* The while loop of stringify (lines 101-114): i records counted so far,
\* p at the start of a record.
RECURSIVE StringifySeek(_, _, _, _)
StringifySeek(data, p, i, index) ==
  IF i = index THEN Stringified(CopyToken(data, p))
  ELSE IF data[p] = NUL THEN NotStringified
  ELSE StringifySeek(data, SkipToken(data, p + 1),
                     i + (IF data[p] # kAltEnumMarker THEN 1 ELSE 0), index)

\* EnumUtils::stringify(data, index, enumData).
stringify(index, data) == StringifySeek(data, 1, 0, index)

\* Globals::kMaxEnumSize: the size of the content buffer of serialize and
\* deserialize.
kMaxEnumSize == 64

\* Host values handed to deserialize and produced by serialize.
HostString(s) == [type |-> "string", s |-> s]
NotAString == [type |-> "number", s |-> <<>>]

\* The outcome of a deserialize: the code, whether out was assigned and what
\* it holds, and whether parse was called on the table.
Deserialized(result, assigned, out, scanned) ==
  [result |-> result, assigned |-> assigned, out |-> out, scanned |-> scanned]

\* A deserialize that does not test the length against the buffer size.
deserializeNoSizeTest(in, data, _start, prev) ==
  IF in.type # "string" THEN Deserialized("kResultInvalidValue", FALSE, prev, FALSE)
  ELSE IF Len(in.s) <= 0 THEN Deserialized("kResultInvalidValue", FALSE, prev, FALSE)
  ELSE LET index == parse(in.s, data)
       IN IF index = kEnumNotFound
            THEN Deserialized("kResultInvalidValue", FALSE, prev, TRUE)
            ELSE Deserialized("kResultOk", TRUE, index + _start, TRUE)

\* Enum::deserialize(ctx, in, out) of the enum with this table and _start.
deserialize(in, data, _start, prev) ==
  IF in.type # "string" THEN Deserialized("kResultInvalidValue", FALSE, prev, FALSE)
  ELSE IF Len(in.s) <= 0 \/ Len(in.s) > kMaxEnumSize
    THEN Deserialized("kResultInvalidValue", FALSE, prev, FALSE)
  ELSE LET index == parse(in.s, data)
       IN IF index = kEnumNotFound
            THEN Deserialized("kResultInvalidValue", FALSE, prev, TRUE)
            ELSE Deserialized("kResultOk", TRUE, index + _start, TRUE)

\* Enum::serialize(ctx, in, out).  index is the unsigned difference
\* in - _start, held as the signed number of the same 32 bits (as
\* kEnumNotFound is), which no record count of stringify equals when it is
\* negative.
serialize(in, data, _start) ==
  LET index == in - _start
      r == stringify(index, data)
  IN IF r.ret = kEnumNotFound \/ r.ret = 0
       THEN [result |-> "kResultInvalidValue", host |-> HostString(<<>>)]
       ELSE [result |-> "kResultOk", host |-> HostString(SubSeq(r.buf, 1, r.ret))]

(***************************************************************************)
(* The tables and inputs EnumUtils is applied to.  A table is a list of    *)
(* entries, each a primary token and its alternate spellings; NJS_ENUM     *)
(* (lines 214-218) stores the string literal that lists them, whose        *)
(* terminating NUL is the empty record that ends the table.                *)
(***************************************************************************)
MaxEntries == 2
MaxAlternates == 1

\* "a", "ab", "a-b", "b"
TokenPool == {<<97>>, <<97, 98>>, <<97, 45, 98>>, <<98>>}

AlternateLists == UNION {[1..n -> TokenPool] : n \in 0..MaxAlternates}
Entries == [token : TokenPool, alts : AlternateLists]
Tables == UNION {[1..n -> Entries] : n \in 1..MaxEntries}

\* The inputs of parse: the tokens, the empty buffer, "abb", "a-" and "-ab".
ParseInputs == TokenPool \cup {<<>>, <<97, 98, 98>>, <<97, 45>>, <<45, 97, 98>>}

RECURSIVE EncodeAlternates(_)
EncodeAlternates(alts) ==
  IF alts = <<>> THEN <<>>
  ELSE <<kAltEnumMarker>> \o Head(alts) \o <<NUL>> \o EncodeAlternates(Tail(alts))

RECURSIVE EncodeTable(_)
EncodeTable(table) ==
  IF table = <<>> THEN <<NUL>>
  ELSE Head(table).token \o <<NUL>> \o EncodeAlternates(Head(table).alts)
       \o EncodeTable(Tail(table))

EnumIdle ==
  [fn |-> "none", table |-> <<>>, in |-> <<>>, index |-> 0,
   ret |-> 0, buf |-> <<>>, back |-> 0,
   _start |-> 0, value |-> 0, host |-> NotAString, result |-> "kResultOk",
   assigned |-> FALSE, out |-> 0, scanned |-> FALSE, backResult |-> "kResultOk"]

InitEnum == enum = EnumIdle

\* parse(in, Len(in), data) on a table.
ParseStep(table, in) ==
  /\ enum.fn = "none"
  /\ enum' = [EnumIdle EXCEPT !.fn = "parse", !.table = table, !.in = in,
                              !.ret = parse(in, EncodeTable(table))]
  /\ UNCHANGED <<WrapVars, CallVars, NumVars, BindVars, TaskVars, UnwrapVars>>

\* stringify(buf, index, data) on a table.
StringifyStep(table, index) ==
  /\ enum.fn = "none"
  /\ LET r == stringify(index, EncodeTable(table))
     IN enum' = [EnumIdle EXCEPT !.fn = "stringify", !.table = table, !.index = index,
                                 !.ret = r.ret, !.buf = r.buf]
  /\ UNCHANGED <<WrapVars, CallVars, NumVars, BindVars, TaskVars, UnwrapVars>>

\* parse(buf, size, data) of the token stringify produced, size being the
\* value stringify returned.
ParseStringifiedStep ==
  /\ enum.fn = "stringify"
  /\ enum.ret # kEnumNotFound
  /\ enum' = [enum EXCEPT !.fn = "roundtrip",
                          !.back = parse(SubSeq(enum.buf, 1, enum.ret), EncodeTable(enum.table))]
  /\ UNCHANGED <<WrapVars, CallVars, NumVars, BindVars, TaskVars, UnwrapVars>>

\* The _start of the enums, the host values deserialize is given (a
\* non-string, the parse inputs as strings, a string that fills the buffer
\* and one that is a char longer) and the value out holds before the call.
EnumStarts == {-1, 2}
EnumOutBefore == 77
DeserializeInputs ==
  {NotAString} \cup {HostString(in) : in \in ParseInputs}
    \cup {HostString([i \in 1..n |-> 97]) : n \in {kMaxEnumSize, kMaxEnumSize + 1}}

\* e.deserialize(ctx, in, out).
DeserializeStep(table, _start, in) ==
  /\ enum.fn = "none"
  /\ LET r == deserialize(in, EncodeTable(table), _start, EnumOutBefore)
     IN enum' = [EnumIdle EXCEPT !.fn = "deserialize", !.table = table, !._start = _start,
                                 !.host = in, !.result = r.result, !.assigned = r.assigned,
                                 !.out = r.out, !.scanned = r.scanned]
  /\ UNCHANGED <<WrapVars, CallVars, NumVars, BindVars, TaskVars, UnwrapVars>>

\* e.serialize(ctx, in, out).
SerializeStep(table, _start, in) ==
  /\ enum.fn = "none"
  /\ LET r == serialize(in, EncodeTable(table), _start)
     IN enum' = [EnumIdle EXCEPT !.fn = "serialize", !.table = table, !._start = _start,
                                 !.value = in, !.result = r.result, !.host = r.host]
  /\ UNCHANGED <<WrapVars, CallVars, NumVars, BindVars, TaskVars, UnwrapVars>>

\* e.deserialize(ctx, s, out) of the string s a successful serialize produced.
DeserializeSerializedStep ==
  /\ enum.fn = "serialize"
  /\ enum.result = "kResultOk"
  /\ LET r == deserialize(enum.host, EncodeTable(enum.table), enum._start, EnumOutBefore)
     IN enum' = [enum EXCEPT !.fn = "serialized", !.backResult = r.result,
                             !.assigned = r.assigned, !.out = r.out]
  /\ UNCHANGED <<WrapVars, CallVars, NumVars, BindVars, TaskVars, UnwrapVars>>

(***************************************************************************)
(* Class registration: internal::V8BindClassHelper                         *)
(* (njs-engine-v8.h:1873-1966) over the BindingItem array of a class       *)
(* (njs-base.h:658-681).  The data of an item, its native function, is     *)
(* identified by the position of the item in the array.                    *)
(***************************************************************************)
MaxItems == 3
NumNames == 2

ItemTypes == {"kTypeStatic", "kTypeMethod", "kTypeGetter", "kTypeSetter"}
BindingItems == [type : ItemTypes, name : 1..NumNames]
ItemArrays == UNION {[1..n -> BindingItems] : n \in 1..MaxItems}

NoFunction == 0

BindIdle ==
  [pc |-> "idle", items |-> <<>>, i |-> 0, functions |-> <<>>, accessors |-> <<>>,
   itemsRead |-> {}]

InitBind == bind = BindIdle

\* V8ClassBindings<T>::Init calls V8BindClassHelper with the items of the
\* class and their count; the loop starts at i = 0.
BindClass(items) ==
  /\ bind.pc = "idle"
  /\ bind' = [BindIdle EXCEPT !.pc = "loop", !.items = items]
  /\ UNCHANGED <<WrapVars, CallVars, NumVars, EnumVars, TaskVars, UnwrapVars>>

\* The getter/setter case (lines 1914-1956) for the item at 0-based index i
\* of `count` items: the accessor registered and the number of items
\* consumed, or the abort.  nextItem is read only when count - i > 1;
\* itemsRead has the index (counted from 0, as in the code) of a nextItem
\* whose fields were read.
AccessorCaseIgnoringNames(items, i) ==
  LET count == Len(items)
      item == items[i + 1]
      pairedType == IF item.type = "kTypeGetter" THEN "kTypeSetter" ELSE "kTypeGetter"
      paired == count - i > 1 /\ items[i + 2].type = pairedType
      nextRead == IF count - i > 1 THEN {i + 1} ELSE {}
      getter == IF item.type = "kTypeGetter" THEN i + 1
                ELSE IF paired THEN i + 2 ELSE NoFunction
      setter == IF item.type = "kTypeSetter" THEN i + 1
                ELSE IF paired THEN i + 2 ELSE NoFunction
  IN IF getter = NoFunction
       THEN [abort |-> TRUE, used |-> 0, accessor |-> <<>>, itemsRead |-> nextRead]
       ELSE [abort |-> FALSE, used |-> IF paired THEN 2 ELSE 1, itemsRead |-> nextRead,
             accessor |-> <<[name |-> item.name, getter |-> getter, setter |-> setter,
                             ReadOnly |-> setter = NoFunction]>>]

AccessorCase(items, i) ==
  LET count == Len(items)
      item == items[i + 1]
      pairedType == IF item.type = "kTypeGetter" THEN "kTypeSetter" ELSE "kTypeGetter"
      paired == /\ count - i > 1
                /\ items[i + 2].type = pairedType
                /\ items[i + 2].name = item.name
      nextRead == IF count - i > 1 THEN {i + 1} ELSE {}
      getter == IF item.type = "kTypeGetter" THEN i + 1
                ELSE IF paired THEN i + 2 ELSE NoFunction
      setter == IF item.type = "kTypeSetter" THEN i + 1
                ELSE IF paired THEN i + 2 ELSE NoFunction
  IN IF getter = NoFunction
       THEN [abort |-> TRUE, used |-> 0, accessor |-> <<>>, itemsRead |-> nextRead]
       ELSE [abort |-> FALSE, used |-> IF paired THEN 2 ELSE 1, itemsRead |-> nextRead,
             accessor |-> <<[name |-> item.name, getter |-> getter, setter |-> setter,
                             ReadOnly |-> setter = NoFunction]>>]

\* The loop with i advanced by one after every case.
BindItemStepNoSkip ==
  /\ bind.pc = "loop"
  /\ IF bind.i >= Len(bind.items)
       THEN bind' = [bind EXCEPT !.pc = "done"]
       ELSE LET item == bind.items[bind.i + 1]
            IN IF item.type \in {"kTypeStatic", "kTypeMethod"}
                 THEN bind' = [bind EXCEPT
                        !.functions = Append(@, [name |-> item.name, type |-> item.type,
                                                 data |-> bind.i + 1]),
                        !.itemsRead = @ \cup {bind.i},
                        !.i = @ + 1]
                 ELSE LET r == AccessorCase(bind.items, bind.i)
                      IN IF r.abort
                           THEN bind' = [bind EXCEPT !.pc = "aborted",
                                           !.itemsRead = @ \cup {bind.i} \cup r.itemsRead]
                           ELSE bind' = [bind EXCEPT !.accessors = @ \o r.accessor,
                                           !.itemsRead = @ \cup {bind.i} \cup r.itemsRead,
                                           !.i = @ + 1]
  /\ UNCHANGED <<WrapVars, CallVars, NumVars, EnumVars, TaskVars, UnwrapVars>>

\* One iteration of the for loop of V8BindClassHelper, or its exit.
BindItemStep ==
  /\ bind.pc = "loop"
  /\ IF bind.i >= Len(bind.items)
       THEN bind' = [bind EXCEPT !.pc = "done"]
       ELSE LET item == bind.items[bind.i + 1]
            IN IF item.type \in {"kTypeStatic", "kTypeMethod"}
                 THEN bind' = [bind EXCEPT
                        !.functions = Append(@, [name |-> item.name, type |-> item.type,
                                                 data |-> bind.i + 1]),
                        !.itemsRead = @ \cup {bind.i},
                        !.i = @ + 1]
                 ELSE LET r == AccessorCase(bind.items, bind.i)
                      IN IF r.abort
                           THEN bind' = [bind EXCEPT !.pc = "aborted",
                                           !.itemsRead = @ \cup {bind.i} \cup r.itemsRead]
                           ELSE bind' = [bind EXCEPT !.accessors = @ \o r.accessor,
                                           !.itemsRead = @ \cup {bind.i} \cup r.itemsRead,
                                           !.i = @ + r.used]
  /\ UNCHANGED <<WrapVars, CallVars, NumVars, EnumVars, TaskVars, UnwrapVars>>

(***************************************************************************)
(* Tasks (njs-integrate-libuv.h).  The host thread constructs and posts    *)
(* tasks and runs the loop's after-work callbacks; uv_queue_work hands a   *)
(* request to a thread of the pool, which runs the work callback, and      *)
(* queues the after-work callback on the loop once the work callback has   *)
(* returned.  Every callback a task receives is logged with the thread it  *)
(* ran on, the handle scope it ran in and the host value it was handed.    *)
(***************************************************************************)
NumTasks == 2
NumWorkers == 2
NumValues == 2

Tasks == 1..NumTasks
Workers == 1..NumWorkers
Values == 1..NumValues

HostThread == 0
NoValue == 0
NoScope == 0
NoTask == 0

Event(e, thread, scope, arg, live) ==
  [e |-> e, thread |-> thread, scope |-> scope, arg |-> arg, live |-> live]

\* status: what the loop will pass to the after-work callback of the task,
\* 0 unless the request was cancelled.
UV_ECANCELED == -125

TaskIdle == [pc |-> "none", _data |-> NoValue, _uvStatus |-> 0, status |-> 0, events |-> <<>>]

InitTask ==
  task = [tasks |-> [t \in Tasks |-> TaskIdle],
          queue |-> <<>>,
          completed |-> <<>>,
          worker |-> [w \in Workers |-> NoTask],
          values |-> [v \in Values |-> TRUE],
          scopes |-> 0]

\* A Task constructor that leaves _data empty.
TaskNoMakePersistent(t, data) ==
  /\ task.tasks[t].pc = "none"
  /\ task.values[data]
  /\ task' = [task EXCEPT
                !.tasks[t].pc = "constructed",
                !.tasks[t].events = Append(@, Event("Task", HostThread, NoScope, data, TRUE))]
  /\ UNCHANGED <<WrapVars, CallVars, NumVars, EnumVars, BindVars, UnwrapVars>>

\* Task::Task(ctx, data): ctx.MakePersistent(data, _data); _uvWork.data = this;
\* _uvStatus = 0.  The caller holds data in a local handle.
Task(t, data) ==
  /\ task.tasks[t].pc = "none"
  /\ task.values[data]
  /\ task' = [task EXCEPT
                !.tasks[t].pc = "constructed",
                !.tasks[t]._data = data,
                !.tasks[t]._uvStatus = 0,
                !.tasks[t].events = Append(@, Event("Task", HostThread, NoScope, data, TRUE))]
  /\ UNCHANGED <<WrapVars, CallVars, NumVars, EnumVars, BindVars, UnwrapVars>>

\* PostTask(task): uv_queue_work(uv_default_loop(), &task->_uvWork,
\* UVWorkCallback, UVAfterWorkCallback).
PostTask(t) ==
  /\ task.tasks[t].pc = "constructed"
  /\ task' = [task EXCEPT
                !.tasks[t].pc = "queued",
                !.tasks[t].events = Append(@, Event("PostTask", HostThread, NoScope, NoValue, FALSE)),
                !.queue = Append(@, t)]
  /\ UNCHANGED <<WrapVars, CallVars, NumVars, EnumVars, BindVars, UnwrapVars>>

\* internal::UVWorkCallback(uvWork) on the pool thread w: task->OnWork() is
\* entered.  OnWork takes no context and no value.
UVWorkCallback(w) ==
  /\ task.worker[w] = NoTask
  /\ task.queue # <<>>
  /\ LET t == Head(task.queue)
     IN task' = [task EXCEPT
                   !.queue = Tail(@),
                   !.worker[w] = t,
                   !.tasks[t].pc = "working",
                   !.tasks[t].events = Append(@, Event("OnWork", w, NoScope, NoValue, FALSE))]
  /\ UNCHANGED <<WrapVars, CallVars, NumVars, EnumVars, BindVars, UnwrapVars>>

\* OnWork returns on the pool thread w; the request is handed back to the loop.
UVWorkReturn(w) ==
  /\ task.worker[w] # NoTask
  /\ LET t == task.worker[w]
     IN task' = [task EXCEPT
                   !.worker[w] = NoTask,
                   !.completed = Append(@, t),
                   !.tasks[t].pc = "worked",
                   !.tasks[t].events =
                      Append(@, Event("OnWorkReturn", w, NoScope, NoValue, FALSE))]
  /\ UNCHANGED <<WrapVars, CallVars, NumVars, EnumVars, BindVars, UnwrapVars>>

\* internal::UVAfterWorkCallback(uvWork, status) on the loop (host) thread:
\* ScopedContext ctx(task->_runtime); data = ctx.MakeLocal(task->_data);
\* task->OnDone(ctx, data); task->OnDestroy(ctx).  status is not looked at
\* and _uvStatus is not written.
UVAfterWorkCallback ==
  /\ task.completed # <<>>
  /\ LET t == Head(task.completed)
         status == task.tasks[t].status
         scope == task.scopes + 1
         data == task.tasks[t]._data
         live == data # NoValue /\ task.values[data]
     IN task' = [task EXCEPT
                   !.completed = Tail(@),
                   !.scopes = scope,
                   !.tasks[t].pc = "destroyed",
                   !.tasks[t].events =
                      @ \o <<Event("ScopedContext", HostThread, scope, NoValue, FALSE),
                             Event("MakeLocal", HostThread, scope, data, live),
                             Event("OnDone", HostThread, scope, data, live),
                             Event("OnDestroy", HostThread, scope, NoValue, FALSE)>>]
  /\ UNCHANGED <<WrapVars, CallVars, NumVars, EnumVars, BindVars, UnwrapVars>>

\* uv_cancel(&task->_uvWork) on a request no pool thread has taken yet: the
\* work callback is not run and the loop calls the after-work callback with
\* UV_ECANCELED.
CancelTask(t) ==
  /\ task.tasks[t].pc = "queued"
  /\ task' = [task EXCEPT
                !.queue = SelectSeq(@, LAMBDA u : u # t),
                !.completed = Append(@, t),
                !.tasks[t].pc = "cancelled",
                !.tasks[t].status = UV_ECANCELED]
  /\ UNCHANGED <<WrapVars, CallVars, NumVars, EnumVars, BindVars, UnwrapVars>>

\* The host collects a value that no handle refers to: the script has
\* dropped it and no task holds it in _data.
CollectValue(v) ==
  /\ task.values[v]
  /\ \A t \in Tasks : task.tasks[t]._data # v
  /\ task' = [task EXCEPT !.values[v] = FALSE]
  /\ UNCHANGED <<WrapVars, CallVars, NumVars, EnumVars, BindVars, UnwrapVars>>


(***************************************************************************)
(* Specifications.                                                         *)
(***************************************************************************)
vars == <<WrapVars, CallVars, NumVars, ExtVars>>

\* The state after construction: nothing wrapped, no call in progress, no
\* utility applied.
Init ==
  /\ InitWrap /\ InitCall /\ InitNum /\ InitEnum /\ InitBind /\ InitTask
  /\ InitUnwrap

NextCall ==
  \/ \E isNew \in BOOLEAN : ConstructorEntry(isNew)
  \/ \E isNew \in BOOLEAN : AbstractConstructorEntry(isNew)
  \/ \E kind \in BoundEntryKinds : BoundEntry(kind)
  \/ \E r \in V8Codes : ImplStep(r)
  \/ \E n \in ArgIndexes, argc \in ArgIndexes : VerifyArgumentsCountStep(n, argc)
  \/ \E junk \in Indeterminate : ProcessResultStep(junk)
  \/ \E c \in MixinCalls : MixinFail(c)
  \/ \E code \in BaseCodes : DirectFail(code)
  \/ ReportErrorStep

SpecCall == Init /\ [][NextCall]_vars

NextNum ==
  \/ \E In \in IntTypeNames, Out \in IntTypeNames : \E in \in ValuesOf(In) :
       IntCastStep(In, Out, in)
  \/ \E T \in IntTypeNames : \E x \in ValuesOf(T) : IsSafeIntStep(T, x)
  \/ \E in \in Doubles : DoubleToInt64Step(in)
  \/ \E in \in Doubles : DoubleToUint64Step(in)
  \/ \E T \in IntTypeNames : \E in \in HostValues : UnpackStep(T, in)
  \/ \E T \in IntTypeNames : \E in \in ValuesOf(T) : PackStep(T, in)
  \/ /\ num.fn = "none"
     /\ \E T \in IntTypeNames : \E in \in ValuesOf(T), concept \in ConceptsOf(T) :
          PackWithConceptStep(T, in, concept)
  \/ /\ num.fn = "none"
     /\ \E T \in IntTypeNames : \E in \in HostValues, concept \in ConceptsOf(T) :
          UnpackWithConceptStep(T, in, concept)

SpecNum == Init /\ [][NextNum]_vars

NextEnum ==
  \/ /\ enum.fn = "none"
     /\ \E table \in Tables, in \in ParseInputs : ParseStep(table, in)
  \/ /\ enum.fn = "none"
     /\ \E table \in Tables, index \in 0..(MaxEntries + 1) : StringifyStep(table, index)
  \/ ParseStringifiedStep
  \/ /\ enum.fn = "none"
     /\ \E table \in Tables, _start \in EnumStarts, in \in DeserializeInputs :
          DeserializeStep(table, _start, in)
  \/ /\ enum.fn = "none"
     /\ \E table \in Tables, _start \in EnumStarts :
          \E in \in (_start - 2)..(_start + MaxEntries + 1) : SerializeStep(table, _start, in)
  \/ DeserializeSerializedStep

SpecEnum == Init /\ [][NextEnum]_vars

NextBind ==
  \/ /\ bind.pc = "idle"
     /\ \E items \in ItemArrays : BindClass(items)
  \/ BindItemStep

SpecBind == Init /\ [][NextBind]_vars

NextTask ==
  \/ \E t \in Tasks, v \in Values : Task(t, v)
  \/ \E t \in Tasks : PostTask(t)
  \/ \E w \in Workers : UVWorkCallback(w)
  \/ \E w \in Workers : UVWorkReturn(w)
  \/ UVAfterWorkCallback
  \/ \E v \in Values : CollectValue(v)

SpecTask == Init /\ [][NextTask]_vars

\* The tasks with a user that cancels requests.
NextTaskCancel ==
  \/ NextTask
  \/ \E t \in Tasks : CancelTask(t)

SpecTaskCancel == Init /\ [][NextTaskCancel]_vars

\* The pool runs every queued request and the loop runs every after-work
\* callback handed to it.
SpecTaskLive ==
  /\ SpecTask
  /\ \A w \in Workers : WF_vars(UVWorkCallback(w)) /\ WF_vars(UVWorkReturn(w))
  /\ WF_vars(UVAfterWorkCallback)

\* The interface the binding macros use, the script and the collector.
NextWrapUsed ==
  \/ \E h \in Hosts, n \in Natives : V8WrapNative(h, n)
  \/ \E n \in Natives : AddRef(n)
  \/ \E n \in Natives : AsJSObject(n)
  \/ \E h \in Hosts : DropReferences(h)
  \/ \E h \in Hosts : HostGC(h)

\* The whole public interface of a wrapped class.
NextWrapPublic ==
  \/ NextWrapUsed
  \/ \E n \in Natives : Release(n)
  \/ \E n \in Natives : MakeWeakStep(n)
  \/ \E h \in Hosts, n \in Natives : WrapDataOf(h, n)

SpecWrapPublic == Init /\ [][NextWrapPublic]_vars

\* The interface in a build without assertions.
NextWrapNoAssert ==
  \/ NextWrapUsed
  \/ \E n \in Natives : ReleaseNoAssert(n)

SpecWrapNoAssert == Init /\ [][NextWrapNoAssert]_vars

NextWrap ==
  \/ NextWrapUsed
  \/ \E n \in Natives : Release(n)
  \/ \E v \in UnwrapValues, T \in WrappedTypes : UnwrapCheckedStep(v, T)
  \/ \E h \in Hosts, T \in WrappedTypes : UnwrapStep(h, T)

SpecWrap == Init /\ [][NextWrap]_vars

(***************************************************************************)
(* C1: the GC weak callback destroyCallbackT never runs for a native       *)
(* object whose refcount is greater than 0: every finalizer run so far saw *)
(* _refCount == 0.                                                         *)
(***************************************************************************)
C1_FinalizerSeesZeroRefCount ==
  \A n \in Natives : finalizedWith[n] \in {-1, 0}

\* A native object that was wrapped has been finalized by the host GC.
C1_Witness ==
  \E n \in Natives : finalizedWith[n] = 0 /\ ~wrapData[n].alive /\ lastOp.op = "gc"

(***************************************************************************)
(* C2: right after wrap the refcount is 0 and the handle weak; after an    *)
(* addRef from 0 the refcount is 1 and the handle strong; after a release  *)
(* the handle is weak exactly if the refcount came back to 0; and in every *)
(* state a paired live object has a weak handle iff its refcount is 0.     *)
(***************************************************************************)
C2_WeakIffRefCountZero ==
  /\ \A n \in Natives :
       (wrapData[n].alive /\ IsValid(n)) => (IsWeak(n) <=> RefCount(n) = 0)
  /\ lastOp.op = "wrap" => RefCount(lastOp.n) = 0 /\ IsWeak(lastOp.n)
  /\ (lastOp.op = "addRef" /\ lastOp.prev = 0) =>
       RefCount(lastOp.n) = 1 /\ ~IsWeak(lastOp.n)
  /\ lastOp.op = "release" =>
       /\ RefCount(lastOp.n) = lastOp.prev - 1
       /\ IsWeak(lastOp.n) <=> (lastOp.prev = 1)

\* A release has just brought a refcount back to 0 and re-armed the handle.
C2_Witness ==
  /\ lastOp.op = "release"
  /\ lastOp.prev = 1
  /\ RefCount(lastOp.n) = 0
  /\ IsWeak(lastOp.n)

(***************************************************************************)
(* C3: the pairing is 1:1: no two live native objects hold a handle to the *)
(* same host object.                                                       *)
(***************************************************************************)
C3_PairingOneToOne ==
  \A n1, n2 \in Natives :
    (n1 # n2 /\ wrapData[n1].alive /\ wrapData[n2].alive /\ IsValid(n1))
      => wrapData[n1]._object # wrapData[n2]._object

(***************************************************************************)
(* C4: when the implementation of a binding entry point returns Bypass,    *)
(* ProcessResult does not materialize an error: the bridge raises no host  *)
(* exception of its own for that call.                                     *)
(***************************************************************************)
BridgeThrows == Cardinality({i \in 1..Len(thrown) : thrown[i].by = "bridge"})

C4_BypassNotMaterialized ==
  (call.pc = "done" /\ call.result = "kResultBypass") => BridgeThrows = 0

(***************************************************************************)
(* C5: for a finished call the bridge has raised no host exception when    *)
(* the result is Ok and exactly one when the result is a failing code      *)
(* other than Bypass, whichever branch of V8ReportError or reportError     *)
(* the code selects.                                                       *)
(***************************************************************************)
C5_OneExceptionPerFailure ==
  call.pc = "done" =>
    /\ call.result = "kResultOk" => BridgeThrows = 0
    /\ call.result \notin {"kResultOk", "kResultBypass"} => BridgeThrows = 1

\* A call failed with a code V8ReportError has no case for, and one
\* exception was raised.
C5_Witness ==
  /\ call.pc = "done"
  /\ call.api = "v8"
  /\ call.result = "kResultOutOfMemory"
  /\ BridgeThrows = 1
  /\ Len(thrown) = 1

(***************************************************************************)
(* C6: an implementation written as NJS_CHECK(op_1); ...; return op_n      *)
(* returns at the first operation whose result is not Ok, with exactly     *)
(* that code, and runs no later operation; if every operation is Ok all n  *)
(* run in order.                                                           *)
(***************************************************************************)
C6_CheckShortCircuits ==
  call.api = "v8" =>
    LET k == Len(call.ran) IN
    /\ \A i \in 1..(k - 1) : call.ran[i] = "kResultOk"
    /\ call.pc = "impl" =>
         /\ k = call.step - 1
         /\ k > 0 => call.ran[k] = "kResultOk"
    /\ (call.pc \in {"process", "done"} /\ k > 0) =>
         /\ call.result = call.ran[k]
         /\ call.ran[k] = "kResultOk" => k = ImplSteps

\* The second operation failed: the function returned its code and the
\* third operation never ran.
C6_Witness ==
  /\ call.pc = "process"
  /\ call.ran = <<"kResultOk", "kResultInvalidValueType">>
  /\ call.result = "kResultInvalidValueType"
  /\ ImplSteps > 2

(***************************************************************************)
(* C7: for a code produced by a ResultMixin helper on a freshly reset      *)
(* payload, reportError interprets a payload word only under the shape the *)
(* helper wrote it with, or reads a word that still holds the reset value. *)
(***************************************************************************)
C7_ReadsMatchProducer ==
  (call.pc = "done" /\ call.kind = "mixin") =>
    \A rd \in reads :
      rd[2] = "any" \/ payload[rd[1]].shape \in {rd[2], "reset"}

\* invalidArgumentTypeId was materialized: both words were read, as the
\* argument index and as the type id.
C7_Witness ==
  /\ call.pc = "done"
  /\ call.helper.helper = "invalidArgumentTypeId"
  /\ reads = {<<"first", "argIndex">>, <<"second", "typeId">>}
  /\ payload.first.shape = "argIndex"
  /\ payload.second.shape = "typeId"

(***************************************************************************)
(* C8: for integer types A, B with width(A) > width(B), intCast of a value *)
(* outside B's range (a negative value for an unsigned B included) fails   *)
(* with InvalidValue and leaves the output unassigned; intCast of a value  *)
(* inside B's range returns Ok with the output numerically equal to the    *)
(* input.                                                                  *)
(***************************************************************************)
C8_NarrowingCastChecked ==
  (num.fn = "intCast" /\ SizeOf(num.a) > SizeOf(num.b)) =>
    IF NumLeq(minValue(num.b), num.x) /\ NumLeq(num.x, maxValue(num.b))
      THEN num.result = "kResultOk" /\ num.assigned /\ num.out = num.x
      ELSE num.result = "kResultInvalidValue" /\ ~num.assigned /\ num.out = OutBefore

(***************************************************************************)
(* C9: isSafeInt(x) is true exactly when -(2^53 - 1) <= x <= 2^53 - 1, for *)
(* signed and unsigned 64-bit x alike, and so for every value of a type of *)
(* 32 bits or less.                                                        *)
(***************************************************************************)
C9_SafeIntBoundary ==
  num.fn = "isSafeInt" =>
    /\ num.flag <=> /\ NumLeq(NumNeg(NumSub(Pow2(53), NumOne)), num.x)
                    /\ NumLeq(num.x, NumSub(Pow2(53), NumOne))
    /\ SizeOf(num.a) <= 4 => num.flag

\* isSafeInt(2^53) was evaluated for an unsigned 64-bit input and is false.
C9_Witness ==
  /\ num.fn = "isSafeInt"
  /\ num.a = "uint64_t"
  /\ num.x = Pow2(53)
  /\ ~num.flag

(***************************************************************************)
(* C10: doubleToInt64(d) returns Ok with out = d exactly when d is an      *)
(* integer in [-(2^53 - 1), 2^53 - 1] and otherwise returns InvalidValue   *)
(* with out unchanged; doubleToUint64 does the same over [0, 2^53 - 1].    *)
(***************************************************************************)
C10_DoubleToInt64Exact ==
  LET isInteger == num.d.cls \in {"int", "negzero"}
      top == NumSub(Pow2(53), NumOne)
      accepted(lo) == isInteger /\ NumLeq(lo, num.d.n) /\ NumLeq(num.d.n, top)
      outcome(ok) ==
        IF ok THEN num.result = "kResultOk" /\ num.assigned /\ num.out = num.d.n
              ELSE num.result = "kResultInvalidValue" /\ ~num.assigned /\ num.out = OutBefore
  IN /\ num.fn = "doubleToInt64" => outcome(accepted(NumNeg(top)))
     /\ num.fn = "doubleToUint64" => outcome(accepted(NumZero))

\* doubleToInt64(1.5) was evaluated and rejected.
C10_Witness ==
  /\ num.fn = "doubleToInt64"
  /\ num.d = Double("frac", NumOne)
  /\ num.result = "kResultInvalidValue"
  /\ ~num.assigned

(***************************************************************************)
(* C11: unpacking the host number 2^32 into a native uint32_t fails with   *)
(* a code of the invalid-value family and assigns nothing, unpacking it    *)
(* into a native uint64_t succeeds with 2^32; unpack into an unsigned type *)
(* of 32 bits or less succeeds exactly for host numbers that are unsigned  *)
(* 32-bit integers within the range of the target, yielding that value.    *)
(***************************************************************************)
InvalidValueCodes ==
  {"kResultInvalidValue", "kResultInvalidValueType", "kResultInvalidValueTypeId",
   "kResultInvalidValueTypeName", "kResultInvalidValueCustom", "kResultInvalidValueCommon"}

C11_WitnessWide ==
  /\ num.fn = "Unpack"
  /\ num.a = "uint64_t"
  /\ num.host = HostNumber(Double("int", Pow2(32)))
  /\ num.out = Pow2(32)

(***************************************************************************)
(* Vocabulary of the enum properties.  A table is unambiguous when no two  *)
(* of its tokens (primary or alternate) are the same spelling up to        *)
(* hyphens.  A token accepts an input that is the token itself or the      *)
(* token with some of its interior hyphens left out.                       *)
(***************************************************************************)
StripHyphens(str) == SelectSeq(str, LAMBDA c : c # Hyphen)

TokensOf(entry) == {entry.token} \cup {entry.alts[k] : k \in 1..Len(entry.alts)}

HasAlternate(table) == \E i \in 1..Len(table) : table[i].alts # <<>>

Unambiguous(table) ==
  /\ \A i, j \in 1..Len(table) :
       i # j => \A t \in TokensOf(table[i]), u \in TokensOf(table[j]) :
                  StripHyphens(t) # StripHyphens(u)
  /\ \A i \in 1..Len(table) :
       /\ \A k \in 1..Len(table[i].alts) :
            StripHyphens(table[i].alts[k]) # StripHyphens(table[i].token)
       /\ \A k, l \in 1..Len(table[i].alts) :
            k # l => StripHyphens(table[i].alts[k]) # StripHyphens(table[i].alts[l])

WithoutPositions(str, D) ==
  [i \in 1..(Len(str) - Cardinality(D)) |->
     str[CHOOSE p \in 1..Len(str) :
           p \notin D /\ Cardinality({q \in 1..p : q \notin D}) = i]]

Accepts(token, in) ==
  \E D \in SUBSET {p \in 2..(Len(token) - 1) : token[p] = Hyphen} :
    WithoutPositions(token, D) = in

EntryAccepts(entry, in) == \E t \in TokensOf(entry) : Accepts(t, in)

(***************************************************************************)
(* C12: for an unambiguous table with at least one alternate spelling and  *)
(* every index i below the number N of primary tokens, stringify(i) yields *)
(* the i-th primary token, without marker byte, and parse of it yields i.  *)
(***************************************************************************)
C12_EnumRoundTrip ==
  (/\ enum.fn \in {"stringify", "roundtrip"}
   /\ Unambiguous(enum.table) /\ HasAlternate(enum.table)
   /\ enum.index < Len(enum.table)) =>
    /\ enum.buf = enum.table[enum.index + 1].token
    /\ enum.ret = Len(enum.buf)
    /\ enum.fn = "roundtrip" => enum.back = enum.index

(***************************************************************************)
(* C13: stringify(index) returns kEnumNotFound for every index >= N, N     *)
(* being the number of primary tokens of the table, index = N included.    *)
(***************************************************************************)
C13_StringifyOutOfRange ==
  (enum.fn = "stringify" /\ enum.index >= Len(enum.table)) => enum.ret = kEnumNotFound

(***************************************************************************)
(* C14: parse(buffer) returns the index of the first entry of the table    *)
(* one of whose tokens, primary or alternate, accepts the whole buffer, an *)
(* alternate giving the index of its primary token; it returns             *)
(* kEnumNotFound for the empty buffer and for a buffer no token accepts,   *)
(* such as a proper prefix of a token or a token followed by more chars.   *)
(***************************************************************************)
C14_ParseFirstMatch ==
  enum.fn = "parse" =>
    LET hits == {i \in 1..Len(enum.table) : EntryAccepts(enum.table[i], enum.in)}
    IN IF enum.in = <<>> \/ hits = {}
         THEN enum.ret = kEnumNotFound
         ELSE /\ enum.ret + 1 \in hits
              /\ \A i \in hits : enum.ret + 1 <= i

\* The buffer is the alternate spelling of the second entry only, and
\* parse returned the index of that entry.
C14_Witness ==
  /\ enum.fn = "parse"
  /\ Len(enum.table) = 2
  /\ enum.table[2].alts = <<enum.in>>
  /\ enum.table[2].token # enum.in
  /\ ~EntryAccepts(enum.table[1], enum.in)
  /\ enum.ret = 1

\* A proper prefix of the only token is not found.
C14_WitnessPrefix ==
  /\ enum.fn = "parse"
  /\ enum.table = <<[token |-> <<97, 98>>, alts |-> <<>>]>>
  /\ enum.in = <<97>>
  /\ enum.ret = kEnumNotFound

(***************************************************************************)
(* C20, as stated: parse finds a spelling with an interior hyphen and the  *)
(* spelling without it under the same entry, whichever of the two is the   *)
(* stored token and whichever is the input.                                *)
(***************************************************************************)
InteriorHyphensOnly(str) ==
  str # <<>> /\ str[1] # Hyphen /\ str[Len(str)] # Hyphen

SameSpelling(token, in) ==
  /\ InteriorHyphensOnly(token) /\ InteriorHyphensOnly(in)
  /\ StripHyphens(token) = StripHyphens(in)

C20_HyphenSkippedBothWays ==
  enum.fn = "parse" =>
    LET same == {i \in 1..Len(enum.table) :
                   \E t \in TokensOf(enum.table[i]) : SameSpelling(t, enum.in)}
    IN same # {} => /\ enum.ret + 1 \in same
                    /\ \A i \in same : enum.ret + 1 <= i

(***************************************************************************)
(* C20, amended: parse skips a hyphen of the stored token, never one of    *)
(* the input.  An input equal to a stored token, or to it with interior    *)
(* hyphens left out, is found at that token's entry or at an earlier entry *)
(* that accepts it; an entry is never returned for an input that has a     *)
(* hyphen where none of the entry's tokens has one.                        *)
(***************************************************************************)
HyphenPositions(str) == {p \in 1..Len(str) : str[p] = Hyphen}

C20_TableHyphenSkipped ==
  enum.fn = "parse" =>
    /\ \A i \in 1..Len(enum.table) :
         (\E t \in TokensOf(enum.table[i]) :
            InteriorHyphensOnly(t) /\ enum.in \in {t, StripHyphens(t)})
         => enum.ret \in 0..(i - 1)
    /\ enum.ret # kEnumNotFound =>
         \E t \in TokensOf(enum.table[enum.ret + 1]) :
           /\ StripHyphens(t) = StripHyphens(enum.in)
           /\ Cardinality(HyphenPositions(enum.in)) <= Cardinality(HyphenPositions(t))

\* "a-b" is the stored token and the input "ab" is found under it.
C20_Witness ==
  /\ enum.fn = "parse"
  /\ enum.table = <<[token |-> <<97, 45, 98>>, alts |-> <<>>]>>
  /\ enum.in = <<97, 98>>
  /\ enum.ret = 0

\* "ab" is the stored token and the input "a-b" is not found.
C20_WitnessInputHyphen ==
  /\ enum.fn = "parse"
  /\ enum.table = <<[token |-> <<97, 98>>, alts |-> <<>>]>>
  /\ enum.in = <<97, 45, 98>>
  /\ enum.ret = kEnumNotFound

(***************************************************************************)
(* C15: registration of [Getter(x), Setter(x)] and of [Setter(x),          *)
(* Getter(x)] yields one read-write accessor, of [Getter(x)] alone one     *)
(* read-only accessor; a Setter with no adjacent Getter of the same name   *)
(* aborts the registration; a getter is never paired with a following      *)
(* setter of another name.                                                 *)
(***************************************************************************)
IsItem(p, type) == p \in 1..Len(bind.items) /\ bind.items[p].type = type

LoneSetter(p) ==
  /\ IsItem(p, "kTypeSetter")
  /\ \A q \in {p - 1, p + 1} :
       ~(IsItem(q, "kTypeGetter") /\ bind.items[q].name = bind.items[p].name)

C15_AccessorPairing ==
  /\ \A x \in 1..NumNames :
       LET g == [type |-> "kTypeGetter", name |-> x]
           st == [type |-> "kTypeSetter", name |-> x]
       IN bind.pc \in {"done", "aborted"} =>
            /\ bind.items = <<g, st>> =>
                 /\ bind.pc = "done"
                 /\ bind.accessors = <<[name |-> x, getter |-> 1, setter |-> 2,
                                        ReadOnly |-> FALSE]>>
            /\ bind.items = <<st, g>> =>
                 /\ bind.pc = "done"
                 /\ bind.accessors = <<[name |-> x, getter |-> 2, setter |-> 1,
                                        ReadOnly |-> FALSE]>>
            /\ bind.items = <<g>> =>
                 /\ bind.pc = "done"
                 /\ bind.accessors = <<[name |-> x, getter |-> 1, setter |-> NoFunction,
                                        ReadOnly |-> TRUE]>>
  /\ bind.pc = "done" => \A p \in 1..Len(bind.items) : ~LoneSetter(p)
  /\ \A k \in 1..Len(bind.accessors) :
       LET a == bind.accessors[k]
       IN /\ IsItem(a.getter, "kTypeGetter")
          /\ bind.items[a.getter].name = a.name
          /\ a.ReadOnly <=> a.setter = NoFunction
          /\ a.setter # NoFunction =>
               /\ IsItem(a.setter, "kTypeSetter")
               /\ bind.items[a.setter].name = a.name

\* [Setter(x), Getter(x)] was registered as one read-write accessor.
C15_Witness ==
  /\ bind.pc = "done"
  /\ bind.items = <<[type |-> "kTypeSetter", name |-> 1], [type |-> "kTypeGetter", name |-> 1]>>
  /\ Len(bind.accessors) = 1
  /\ ~bind.accessors[1].ReadOnly

\* [Getter(x), Setter(y)]: x was registered read-only and the setter of y
\* aborted the registration.
C15_WitnessAbort ==
  /\ bind.pc = "aborted"
  /\ bind.items = <<[type |-> "kTypeGetter", name |-> 1], [type |-> "kTypeSetter", name |-> 2]>>
  /\ bind.accessors = <<[name |-> 1, getter |-> 1, setter |-> NoFunction, ReadOnly |-> TRUE]>>

C16_WitnessOk ==
  /\ unwrap.fn = "unwrapChecked"
  /\ unwrap.out.result = "kResultOk"
  /\ unwrap.out.ptr \in Natives

(***************************************************************************)
(* C18: a constructor entry invoked without construct-call semantics does  *)
(* not run the constructor implementation, results in                      *)
(* kResultInvalidConstructCall with the class name in the payload, and one *)
(* TypeError is raised; the constructor entry of an abstract class runs no *)
(* implementation and wraps nothing, and results in                        *)
(* kResultAbstractConstructCall with new and kResultInvalidConstructCall   *)
(* without it, again with one TypeError.                                   *)
(***************************************************************************)
ConstructCallCodes == {"kResultInvalidConstructCall", "kResultAbstractConstructCall"}

OneTypeError ==
  /\ Len(thrown) = 1
  /\ thrown[1].by = "bridge"
  /\ thrown[1].type = kExceptionTypeError

C18_ConstructCall ==
  /\ (call.kind = "constructor" /\ ~call.isNew) =>
       /\ call.ran = <<>>
       /\ call.result = "kResultInvalidConstructCall"
       /\ v8payload._data = Slot("className", StaticClassName)
       /\ call.pc = "done" =>
            /\ OneTypeError
            /\ thrown[1].msg = Msg(<<"Cannot instantiate class %s without new">>,
                                   <<StaticClassName>>)
  /\ call.kind = "abstract" =>
       /\ call.ran = <<>>
       /\ wrapData = [n \in Natives |-> WrapDataInit]
       /\ call.result = IF call.isNew THEN "kResultAbstractConstructCall"
                                      ELSE "kResultInvalidConstructCall"
       /\ v8payload._data = Slot("className", StaticClassName)
       /\ call.pc = "done" => OneTypeError
  /\ (call.pc = "done" /\ call.result \in ConstructCallCodes) => OneTypeError

\* A constructor was called without new and the call has finished.
C18_Witness ==
  /\ call.pc = "done"
  /\ call.kind = "constructor"
  /\ ~call.isNew
  /\ BridgeThrows = 1

\* An abstract class was instantiated with new and the call has finished.
C18_WitnessAbstract ==
  /\ call.pc = "done"
  /\ call.kind = "abstract"
  /\ call.isNew
  /\ call.result = "kResultAbstractConstructCall"
  /\ BridgeThrows = 1

(***************************************************************************)
(* C19: Pack of a 64-bit signed or unsigned value v succeeds exactly when  *)
(* isSafeInt(v); on success the host number equals v on the 32-bit fast    *)
(* path and on the double path alike; on failure the result is the         *)
(* unsafe-64-bit-conversion code of v's signedness and no host value is    *)
(* produced.                                                               *)
(***************************************************************************)
UnsafeConversionCode(T) ==
  IF kIsSigned(T) THEN "kResultUnsafeInt64Conversion" ELSE "kResultUnsafeUint64Conversion"

C19_PackWide ==
  (num.fn = "Pack" /\ TraitIdOf(num.a) \in {"kTraitIdUnsafeInt", "kTraitIdUnsafeUint"}) =>
    IF isSafeInt(num.a, num.x)
      THEN /\ num.result = "kResultOk"
           /\ num.host = HostNumber(Double("int", num.x))
           /\ num.path \in {"Integer::New", "Integer::NewFromUnsigned", "Number::New"}
      ELSE /\ num.result = UnsafeConversionCode(num.a)
           /\ num.host = NoHostValue

(***************************************************************************)
(* C17: for every posted task, in every interleaving of the pool threads   *)
(* and the host thread: the data is made persistent by the constructor     *)
(* before PostTask queues the task; OnWork runs on a pool thread and is    *)
(* handed no host value; after OnWork has returned the host thread enters  *)
(* a scoped context of its own, converts the persistent back to a local    *)
(* value that is still alive, runs OnDone with it and then OnDestroy; no   *)
(* callback runs twice, and a queued task is eventually destroyed, having  *)
(* received each callback once.                                            *)
(***************************************************************************)
TaskLifecycle ==
  <<"Task", "PostTask", "OnWork", "OnWorkReturn",
    "ScopedContext", "MakeLocal", "OnDone", "OnDestroy">>

EventsOf(t) == task.tasks[t].events

TaskOrdered(t) ==
  /\ Len(EventsOf(t)) <= Len(TaskLifecycle)
  /\ \A i \in 1..Len(EventsOf(t)) : EventsOf(t)[i].e = TaskLifecycle[i]

TaskThreads(t) ==
  \A i \in 1..Len(EventsOf(t)) :
    LET ev == EventsOf(t)[i]
    IN IF ev.e \in {"OnWork", "OnWorkReturn"}
         THEN /\ ev.thread \in Workers
              /\ ev.thread = EventsOf(t)[3].thread
              /\ ev.arg = NoValue
              /\ ev.scope = NoScope
         ELSE ev.thread = HostThread

TaskCompletion(t) ==
  \A i \in 1..Len(EventsOf(t)) :
    LET ev == EventsOf(t)[i]
    IN ev.e \in {"ScopedContext", "MakeLocal", "OnDone", "OnDestroy"} =>
         /\ ev.scope # NoScope
         /\ ev.scope = EventsOf(t)[5].scope
         /\ \A u \in Tasks \ {t} : \A j \in 1..Len(EventsOf(u)) : EventsOf(u)[j].scope # ev.scope
         /\ ev.e \in {"MakeLocal", "OnDone"} =>
              /\ ev.arg = EventsOf(t)[1].arg
              /\ ev.arg # NoValue
              /\ ev.live

TaskSafe(t) ==
  /\ TaskOrdered(t)
  /\ TaskThreads(t)
  /\ TaskCompletion(t)
  /\ task.tasks[t].pc \in {"queued", "working", "worked"} =>
       /\ task.tasks[t]._data = EventsOf(t)[1].arg
       /\ task.values[task.tasks[t]._data]
  /\ task.tasks[t].pc = "destroyed" => Len(EventsOf(t)) = Len(TaskLifecycle)

C17_WitnessHeld ==
  \E t \in Tasks, v \in Values :
    /\ task.tasks[t].pc = "working"
    /\ task.tasks[t]._data # v
    /\ ~task.values[v]

(***************************************************************************)
(* C21: deserialize returns kResultInvalidValue, without calling parse on  *)
(* the table and without assigning out, for a host value that is not a     *)
(* string, for the empty string and for a string longer than kMaxEnumSize; *)
(* for any other string it returns kResultInvalidValue, out unassigned,    *)
(* when no entry accepts the string, and otherwise kResultOk with          *)
(* out = index + _start, index being that of the first accepting entry.    *)
(***************************************************************************)
C21_Deserialize ==
  enum.fn = "deserialize" =>
    LET in == enum.host
        hits == {i \in 1..Len(enum.table) : EntryAccepts(enum.table[i], in.s)}
    IN IF in.type # "string" \/ Len(in.s) = 0 \/ Len(in.s) > kMaxEnumSize
         THEN /\ enum.result = "kResultInvalidValue"
              /\ ~enum.scanned
              /\ ~enum.assigned /\ enum.out = EnumOutBefore
         ELSE /\ enum.scanned
              /\ IF hits = {}
                   THEN /\ enum.result = "kResultInvalidValue"
                        /\ ~enum.assigned /\ enum.out = EnumOutBefore
                   ELSE /\ enum.result = "kResultOk"
                        /\ enum.assigned
                        /\ enum.out - enum._start + 1 \in hits
                        /\ \A i \in hits : enum.out - enum._start + 1 <= i

\* A string one char longer than the buffer was rejected unscanned.
C21_Witness ==
  /\ enum.fn = "deserialize"
  /\ enum.host.type = "string"
  /\ Len(enum.host.s) = kMaxEnumSize + 1
  /\ enum.result = "kResultInvalidValue"
  /\ ~enum.scanned

\* An alternate spelling of the second entry was deserialized.
C21_WitnessOk ==
  /\ enum.fn = "deserialize"
  /\ enum.result = "kResultOk"
  /\ enum.out = enum._start + 1
  /\ enum.host.s # enum.table[2].token

(***************************************************************************)
(* C22: for an unambiguous table of N primary tokens, so that              *)
(* _end = _start + N - 1, serialize(v) succeeds with the primary token of  *)
(* index v - _start for every v in _start.._end, deserialize of that       *)
(* string gives v back, and serialize returns kResultInvalidValue with the *)
(* empty string for every v below _start or above _end.                    *)
(***************************************************************************)
C22_SerializeRoundTrip ==
  (enum.fn \in {"serialize", "serialized"} /\ Unambiguous(enum.table)) =>
    LET index == enum.value - enum._start
    IN IF index \in 0..(Len(enum.table) - 1)
         THEN /\ enum.result = "kResultOk"
              /\ enum.host = HostString(enum.table[index + 1].token)
              /\ enum.fn = "serialized" =>
                   /\ enum.backResult = "kResultOk"
                   /\ enum.out = enum.value
         ELSE /\ enum.result = "kResultInvalidValue"
              /\ enum.host = HostString(<<>>)

(***************************************************************************)
(* C23: with a validator concept Range[min, max], Pack calls validate      *)
(* before the default Pack and produces no host value when validation      *)
(* fails, Unpack runs the default Unpack first and validate after it; in   *)
(* both directions the result is Ok only for a value in [min, max], the    *)
(* validator's kResultInvalidValueRange for a value outside it, and the    *)
(* code of the default Pack / Unpack, unchanged, when that fails.  With a  *)
(* serializer concept only the serializer is called.                       *)
(***************************************************************************)
InRange(concept, value) ==
  NumLeq(concept._minValue, value) /\ NumLeq(value, concept._maxValue)

C23_ConceptDispatch ==
  /\ (num.fn = "PackWithConcept" /\ num.concept.kind = "kConceptValidator") =>
       IF ~InRange(num.concept, num.x)
         THEN /\ num.result = "kResultInvalidValueRange"
              /\ num.host = NoHostValue
              /\ num.calls = <<"Validate">>
         ELSE /\ num.calls = <<"Validate", "Pack">>
              /\ num.result = Pack(num.a, num.x).result
              /\ num.host = Pack(num.a, num.x).host
  /\ (num.fn = "UnpackWithConcept" /\ num.concept.kind = "kConceptValidator") =>
       LET r == Unpack(num.a, num.host, OutBefore)
       IN IF r.result # "kResultOk"
            THEN /\ num.result = r.result
                 /\ num.calls = <<"Unpack">>
            ELSE /\ num.calls = <<"Unpack", "Validate">>
                 /\ num.result = IF InRange(num.concept, r.out)
                                   THEN "kResultOk" ELSE "kResultInvalidValueRange"
  /\ (num.fn \in {"PackWithConcept", "UnpackWithConcept"}
      /\ num.concept.kind = "kConceptSerializer") =>
       /\ num.calls \in {<<"Serialize">>, <<"Deserialize">>}
       /\ num.result = num.concept.result

\* A value outside the range was refused by Pack before anything was packed.
C23_Witness ==
  /\ num.fn = "PackWithConcept"
  /\ num.concept.kind = "kConceptValidator"
  /\ num.result = "kResultInvalidValueRange"
  /\ num.calls = <<"Validate">>

\* A value inside the range was refused by the default Pack.
C23_WitnessDefaultFails ==
  /\ num.fn = "PackWithConcept"
  /\ num.concept.kind = "kConceptValidator"
  /\ num.result = "kResultUnsafeInt64Conversion"
  /\ num.calls = <<"Validate", "Pack">>

\* A host value was unpacked and then refused by the validator.
C23_WitnessUnpack ==
  /\ num.fn = "UnpackWithConcept"
  /\ num.result = "kResultInvalidValueRange"
  /\ num.calls = <<"Unpack", "Validate">>

(***************************************************************************)
(* C24: reportError selects the exception kind and the message from the    *)
(* band of the code: a Throw code raises the exception kind of its own     *)
(* number; the codes of the InvalidValue band, InvalidArgumentsLength,     *)
(* InvalidConstructCall and AbstractConstructCall raise TypeError; no code *)
(* is in two bands; and every code other than Ok and Bypass, OutOfMemory,  *)
(* InvalidState and InvalidHandle included, is in a band with a message of *)
(* its own, none ending in the "Unknown error" branch.                     *)
(***************************************************************************)
BandsOf(c) ==
  {b \in {"Throw", "Value", "ArgumentsLength", "ConstructCall"} :
     CASE b = "Throw" -> CodeValue(c) >= _kResultThrowFirst /\ CodeValue(c) <= _kResultThrowLast
       [] b = "Value" -> CodeValue(c) >= _kResultValueFirst /\ CodeValue(c) <= _kResultValueLast
       [] b = "ArgumentsLength" -> c = "kResultInvalidArgumentsLength"
       [] b = "ConstructCall" -> c \in ConstructCallCodes}

C24_BandsCoverCodes ==
  (call.pc = "done" /\ call.api = "base") =>
    /\ Len(thrown) = 1
    /\ Cardinality(BandsOf(call.result)) <= 1
    /\ "Throw" \in BandsOf(call.result) => thrown[1].type = CodeValue(call.result)
    /\ (BandsOf(call.result) # {} /\ "Throw" \notin BandsOf(call.result)) =>
         thrown[1].type = kExceptionTypeError
    /\ thrown[1].msg # Msg(<<"Unknown error">>, <<>>)

(***************************************************************************)
(* C25: when an arity check fails, the failing check records the required  *)
(* count n, or the bounds min..max, in the payload and the message reports *)
(* exactly those numbers: "Required exactly n" for one count (or for       *)
(* min = max), "Required between min..max" otherwise; the wording for an   *)
(* unspecified count appears only when the check supplied none.            *)
(***************************************************************************)
C25_ArityReported ==
  call.pc = "done" =>
    LET h == call.helper IN
    /\ h.helper = "invalidArgumentsLength" =>
         thrown[1].msg = Msg(<<"Invalid number of arguments: (unspecified)">>, <<>>)
    /\ (\/ h.helper = "invalidArgumentsLengthExact"
        \/ h.helper = "invalidArgumentsLengthRange" /\ h.a = h.b) =>
         /\ payload.first = Slot("minArgs", h.a) /\ payload.second = Slot("maxArgs", h.a)
         /\ thrown[1].msg = Msg(<<"Invalid number of arguments: Required exactly %d">>, <<h.a>>)
    /\ (h.helper = "invalidArgumentsLengthRange" /\ h.a # h.b) =>
         /\ payload.first = Slot("minArgs", h.a) /\ payload.second = Slot("maxArgs", h.b)
         /\ thrown[1].msg = Msg(<<"Invalid number of arguments: Required between %d..%d">>,
                                <<h.a, h.b>>)
    /\ (h.helper = "VerifyArgumentsCount" /\ h.a # h.b) =>
         /\ call.result = "kResultInvalidArgumentCount"
         /\ v8payload.required = Slot("required", h.a)
         /\ thrown[Len(thrown)].msg = Msg(<<"Invalid count of arguments (%d required)">>, <<h.a>>)

(***************************************************************************)
(* C26: a task's _uvStatus is 0 from construction until its completion,    *)
(* and once UVAfterWorkCallback(uvWork, status) has run for the task it    *)
(* equals the status the loop passed: 0 for completed work, UV_ECANCELED   *)
(* for a cancelled request.                                                *)
(***************************************************************************)
C26_StatusRecorded ==
  \A t \in Tasks :
    IF task.tasks[t].pc = "destroyed"
      THEN task.tasks[t]._uvStatus = task.tasks[t].status
      ELSE task.tasks[t]._uvStatus = 0

(***************************************************************************)
(* C27: in every state reachable through the whole public interface of a   *)
(* wrapped class (wrap, AddRef, Release, the public MakeWeak, and a        *)
(* WrapData constructed with (ctx, obj, destroyCallback)) the handle of a  *)
(* paired live object is weak iff its refcount is 0: MakeWeak never arms   *)
(* finalization above 0 and no paired object has refcount 0 with a strong  *)
(* handle.                                                                 *)
(***************************************************************************)
C27_PublicWeakIffRefCountZero ==
  \A n \in Natives :
    (wrapData[n].alive /\ IsValid(n)) =>
      /\ RefCount(n) > 0 => ~IsWeak(n)
      /\ RefCount(n) = 0 => IsWeak(n)

(***************************************************************************)
(* C28: the refcount never underflows: a Release runs only with            *)
(* refcount > 0 on a valid handle that is not weak, it leaves the refcount *)
(* one lower, and no object ends with a wrapped-around count.              *)
(***************************************************************************)
C28_NoUnderflow ==
  /\ \A n \in Natives : wrapData[n].alive => RefCount(n) >= 0
  /\ lastOp.op = "release" =>
       /\ lastOp.prev > 0
       /\ wrapData[lastOp.n].alive => RefCount(lastOp.n) = lastOp.prev - 1

(***************************************************************************)
(* C29: an unpack operation that returns a code other than kResultOk       *)
(* leaves the caller's output variable as it was: Unpack of every modelled *)
(* trait, intCast, doubleToInt64 / doubleToUint64, Enum::deserialize, and  *)
(* Unpack composed with a validator concept that rejects the value.        *)
(***************************************************************************)
UnpackOperations ==
  {"Unpack", "UnpackWithConcept", "intCast", "doubleToInt64", "doubleToUint64"}

C29_FailedUnpackKeepsOut ==
  /\ (num.fn \in UnpackOperations /\ num.result # "kResultOk") =>
       (~num.assigned /\ num.out = OutBefore)
  /\ (enum.fn = "deserialize" /\ enum.result # "kResultOk") =>
       (~enum.assigned /\ enum.out = EnumOutBefore)

\* The same without the validator concept: the part that holds.
C29_PlainUnpackKeepsOut ==
  (num.fn \in UnpackOperations /\ num.result # "kResultOk"
     /\ num.concept.kind # "kConceptValidator") =>
    (~num.assigned /\ num.out = OutBefore)

(***************************************************************************)
(* C30: the scan of a binding item sequence that does not abort visits     *)
(* each item exactly once: every Static and Method item has exactly one    *)
(* registered function, every Getter or Setter item is the getter or the   *)
(* setter of exactly one registered accessor, nothing is skipped or        *)
(* registered twice, and no field of an item at an index >= count is read, *)
(* whatever the type of the last item.                                     *)
(***************************************************************************)
FunctionsOf(k) == {j \in DOMAIN bind.functions : bind.functions[j].data = k}

AccessorsOf(k) ==
  {j \in DOMAIN bind.accessors :
     bind.accessors[j].getter = k \/ bind.accessors[j].setter = k}

C30_ScanVisitsOnce ==
  LET count == Len(bind.items)
  IN /\ \A k \in bind.itemsRead : k < count
     /\ bind.pc = "done" =>
          /\ bind.itemsRead = 0 .. (count - 1)
          /\ \A k \in 1..count :
               LET item == bind.items[k]
               IN IF item.type \in {"kTypeStatic", "kTypeMethod"}
                    THEN /\ Cardinality(FunctionsOf(k)) = 1
                         /\ AccessorsOf(k) = {}
                         /\ \A j \in FunctionsOf(k) :
                              /\ bind.functions[j].name = item.name
                              /\ bind.functions[j].type = item.type
                    ELSE /\ FunctionsOf(k) = {}
                         /\ Cardinality(AccessorsOf(k)) = 1
                         /\ \A j \in AccessorsOf(k) :
                              /\ bind.accessors[j].name = item.name
                              /\ bind.accessors[j].getter # bind.accessors[j].setter
                              /\ item.type = "kTypeGetter" <=> bind.accessors[j].getter = k

\* A scan that ended with a getter as the last item, left unpaired.
C30_Witness ==
  /\ bind.pc = "done"
  /\ Len(bind.items) = MaxItems
  /\ bind.items[MaxItems].type = "kTypeGetter"
  /\ bind.items[MaxItems - 1].type = "kTypeStatic"
  /\ Len(bind.accessors) = 1

\* A scan that ended with a setter as the last item, paired with its getter.
C30_WitnessPaired ==
  /\ bind.pc = "done"
  /\ Len(bind.items) = MaxItems
  /\ bind.items[MaxItems].type = "kTypeSetter"
  /\ bind.items[1].type = "kTypeMethod"
  /\ Len(bind.accessors) = 1 /\ Len(bind.functions) = 1

====
